---- MODULE Spec2Model ----
(***************************************************************************)
(* Model of the cash-flow engine: the payment-date simulator               *)
(* (transactions.py), the store queries (repository.py) and the           *)
(* transaction controller and forecast scheduler (main.py).                *)
(*                                                                         *)
(* Dates are integers 32 * month_index + day, month_index counting months  *)
(* from January 2025, so that date order is integer order.  Amounts are    *)
(* integers (cents).                                                       *)
(***************************************************************************)
EXTENDS Integers, Sequences, FiniteSets, TLC

VARIABLES transactions, subscriptions, next_id, next_origin,
          last, prev, prev_subs, steps, calc, ops, max_amount, listing,
          bot

vars == <<transactions, subscriptions, next_id, next_origin,
          last, prev, prev_subs, steps, calc, ops, max_amount, listing,
          bot>>

store_vars == <<transactions, subscriptions, next_id, next_origin,
                last, prev, prev_subs, steps, ops, max_amount, listing>>

(***************************************************************************)
(* Calendar: datetime.date and dateutil.relativedelta                      *)
(***************************************************************************)
MkDate(mi, d) == 32 * mi + d

MonthOf(dt) == dt \div 32

DayOf(dt) == dt % 32

IsLeap(y) == (y % 4 = 0 /\ y % 100 # 0) \/ y % 400 = 0

DaysIn(mi) ==
    LET moy == mi % 12
        y == 2025 + (mi \div 12)
    IN  IF moy = 1 THEN (IF IsLeap(y) THEN 29 ELSE 28)
        ELSE IF moy \in {3, 5, 8, 10} THEN 30 ELSE 31

IsDate(dt) == DayOf(dt) >= 1 /\ DayOf(dt) <= DaysIn(MonthOf(dt))

\* The value standing for a raised ValueError where a date was expected.
ValueError == 0 - 1

\* None where a date is optional (a subscription's end_date).
NoDate == 0 - 2

Min2(a, b) == IF a <= b THEN a ELSE b

Max2(a, b) == IF a >= b THEN a ELSE b

Abs(x) == IF x < 0 THEN 0 - x ELSE x

\* dt + relativedelta(months=k): the day is clamped to the target month.
AddMonths(dt, k) ==
    MkDate(MonthOf(dt) + k, Min2(DayOf(dt), DaysIn(MonthOf(dt) + k)))

\* dt.replace(day=p): raises ValueError when the month has no day p.
ReplaceDay(dt, p) ==
    IF p >= 1 /\ p <= DaysIn(MonthOf(dt)) THEN MkDate(MonthOf(dt), p)
    ELSE ValueError

StartOfMonth(dt) == MkDate(MonthOf(dt), 1)

EndOfMonth(dt) == MkDate(MonthOf(dt), DaysIn(MonthOf(dt)))

SameMonth(a, b) == MonthOf(a) = MonthOf(b)

(***************************************************************************)
(* transactions.py: payment-date simulator                                 *)
(***************************************************************************)
\* A variant of the payment-date simulator whose next-month cycle pays in
\* the billing month itself.
PaymentDateInBillingMonth(transaction_date, cut_off_day, payment_day) ==
    IF payment_day > cut_off_day
    THEN IF DayOf(transaction_date) >= cut_off_day
         THEN ReplaceDay(AddMonths(transaction_date, 1), payment_day)
         ELSE ReplaceDay(transaction_date, payment_day)
    ELSE IF DayOf(transaction_date) > cut_off_day
         THEN ReplaceDay(AddMonths(transaction_date, 1), payment_day)
         ELSE ReplaceDay(transaction_date, payment_day)

_calculate_credit_card_payment_date(transaction_date, cut_off_day, payment_day) ==
    IF payment_day > cut_off_day
    THEN IF DayOf(transaction_date) >= cut_off_day
         THEN ReplaceDay(AddMonths(transaction_date, 1), payment_day)
         ELSE ReplaceDay(transaction_date, payment_day)
    ELSE IF DayOf(transaction_date) > cut_off_day
         THEN ReplaceDay(AddMonths(transaction_date, 2), payment_day)
         ELSE ReplaceDay(AddMonths(transaction_date, 1), payment_day)

(***************************************************************************)
(* database.py: the accounts inserted by insert_mock_data                  *)
(***************************************************************************)
NoAccount ==
    [account_id |-> "None", account_type |-> "None",
     cut_off_day |-> 0, payment_day |-> 0]

Accounts ==
    [a \in {"Cash", "Visa Produbanco", "Amex Produbanco"} |->
        CASE a = "Cash" ->
                [account_id |-> a, account_type |-> "cash",
                 cut_off_day |-> 0, payment_day |-> 0]
          [] a = "Visa Produbanco" ->
                [account_id |-> a, account_type |-> "credit_card",
                 cut_off_day |-> 14, payment_day |-> 25]
          [] a = "Amex Produbanco" ->
                [account_id |-> a, account_type |-> "credit_card",
                 cut_off_day |-> 2, payment_day |-> 15]]

(***************************************************************************)
(* repository.py: queries over the transactions table.  T is the set of    *)
(* rows; a table scan returns rows in rowid (= id) order, so fetchone() is *)
(* the matching row of least id.                                           *)
(***************************************************************************)
RECURSIVE SumAmount(_)
SumAmount(R) ==
    IF R = {} THEN 0
    ELSE LET r == CHOOSE x \in R : TRUE
         IN  r.amount + SumAmount(R \ {r})

FirstRow(R) == CHOOSE r \in R : \A q \in R : r.id <= q.id

\* Rows of R in id order.
RECURSIVE ById(_)
ById(R) ==
    IF R = {} THEN <<>>
    ELSE <<FirstRow(R)>> \o ById(R \ {FirstRow(R)})

get_account_by_name(name) ==
    IF name \in DOMAIN Accounts THEN Accounts[name] ELSE NoAccount

get_transaction_by_id(T, transaction_id) ==
    {r \in T : r.id = transaction_id}

get_transactions_by_origin_id(T, origin_id) ==
    ById({r \in T : r.origin_id = origin_id})

get_subscription_by_id(subs, sub_id) ==
    IF sub_id \in DOMAIN subs THEN {subs[sub_id]} ELSE {}

\* All rows a call of get_budget_allocation_for_month may match; the call
\* returns the first of them.
AllocationRows(T, budget_id, month_date) ==
    {r \in T : r.origin_id = budget_id /\ SameMonth(r.date_created, month_date)}

get_budget_allocation_for_month(T, budget_id, month_date) ==
    IF AllocationRows(T, budget_id, month_date) = {} THEN {}
    ELSE {FirstRow(AllocationRows(T, budget_id, month_date))}

get_total_spent_for_budget_in_month(T, budget_id, month_date) ==
    Abs(SumAmount({r \in T : /\ r.budget = budget_id
                             /\ SameMonth(r.date_created, month_date)
                             /\ r.origin_id # budget_id
                             /\ r.status # "pending"}))

get_total_committed_for_budget_in_month(T, budget_id, month_date) ==
    Abs(SumAmount({r \in T : /\ r.budget = budget_id
                             /\ r.status = "committed"
                             /\ SameMonth(r.date_payed, month_date)
                             /\ r.origin_id # budget_id}))

update_transaction_amount(T, transaction_id, new_amount) ==
    {IF r.id = transaction_id THEN [r EXCEPT !.amount = new_amount] ELSE r
       : r \in T}

update_transaction(T, transaction_id, updates) ==
    {IF r.id = transaction_id
       THEN [f \in DOMAIN r |->
                IF f \in DOMAIN updates THEN updates[f] ELSE r[f]]
       ELSE r : r \in T}

delete_transaction(T, transaction_id) ==
    {r \in T : r.id # transaction_id}

commit_past_and_current_forecasts(T, month_date) ==
    {IF r.status = "forecast" /\ r.date_payed <= EndOfMonth(month_date)
       THEN [r EXCEPT !.status = "committed"] ELSE r : r \in T}

\* SELECT * FROM transactions ORDER BY date_payed.  SQLite scans the table in
\* id order and its sort keeps that order among rows of one date_payed.
RECURSIVE get_all_transactions(_)
get_all_transactions(T) ==
    IF T = {} THEN <<>>
    ELSE LET t == CHOOSE r \in T : \A u \in T :
                     \/ r.date_payed < u.date_payed
                     \/ (r.date_payed = u.date_payed /\ r.id <= u.id)
         IN  <<t>> \o get_all_transactions(T \ {t})

\* transaction_dict with the key running_balance set.
WithBalance(t, running_balance) ==
    [f \in DOMAIN t \cup {"running_balance"} |->
        IF f = "running_balance" THEN running_balance ELSE t[f]]

\* A variant of BalanceLoop that adds the amount of pending rows too.
RECURSIVE BalanceCountingPending(_, _, _)
BalanceCountingPending(rows, i, running_balance) ==
    IF i > Len(rows) THEN <<>>
    ELSE <<WithBalance(rows[i], running_balance + rows[i].amount)>>
           \o BalanceCountingPending(rows, i + 1, running_balance + rows[i].amount)

\* The loop of get_transactions_with_running_balance from row i on.
RECURSIVE BalanceLoop(_, _, _)
BalanceLoop(rows, i, running_balance) ==
    IF i > Len(rows) THEN <<>>
    ELSE LET new_balance == IF rows[i].status # "pending"
                            THEN running_balance + rows[i].amount
                            ELSE running_balance
         IN  <<WithBalance(rows[i], new_balance)>>
               \o BalanceLoop(rows, i + 1, new_balance)

get_transactions_with_running_balance(T) ==
    BalanceLoop(get_all_transactions(T), 1, 0)

\* A variant of delete_future_budget_allocations that ignores from_date.
DeleteAllBudgetAllocations(T, origin_id, from_date) ==
    {r \in T : r.origin_id # origin_id}

\* A variant of delete_future_budget_allocations that deletes the rows of
\* every origin from from_date on.
DeleteEveryRowFrom(T, origin_id, from_date) ==
    {r \in T : r.date_created < from_date}

delete_future_budget_allocations(T, origin_id, from_date) ==
    {r \in T : ~(r.origin_id = origin_id /\ r.date_created >= from_date)}

get_all_active_subscriptions(subs, start_range, end_range) ==
    {id \in DOMAIN subs :
        /\ subs[id].start_date <= end_range
        /\ (subs[id].end_date = NoDate \/ subs[id].end_date >= start_range)}

\* add_transactions on a store S = [tx, subs, nid, ng]: AUTOINCREMENT ids are
\* given in list order.
WithId(row, id) ==
    [id |-> id, date_created |-> row.date_created,
     date_payed |-> row.date_payed, description |-> row.description,
     account |-> row.account, amount |-> row.amount,
     category |-> row.category, budget |-> row.budget,
     status |-> row.status, origin_id |-> row.origin_id]

add_transactions(S, rows) ==
    [S EXCEPT !.tx = S.tx \cup {WithId(rows[i], S.nid + i - 1) : i \in 1..Len(rows)},
              !.nid = S.nid + Len(rows)]

(***************************************************************************)
(* transactions.py: the factories.  Rows are built without an id; a        *)
(* description is [text, n, k], "(n/k)" being the installment suffix and   *)
(* n = k = 0 meaning no suffix.                                            *)
(***************************************************************************)
Desc(text) == [text |-> text, n |-> 0, k |-> 0]

\* round(a / k, 2) on amounts in cents, a >= 0, k > 0 (ties to even).
RoundDiv(a, k) ==
    LET q == a \div k
        r == a % k
    IN  IF 2 * r < k THEN q
        ELSE IF 2 * r > k THEN q + 1
        ELSE IF q % 2 = 0 THEN q ELSE q + 1

PaymentDate(account, effective_date) ==
    IF account.account_type = "credit_card"
    THEN _calculate_credit_card_payment_date(
             effective_date, account.cut_off_day, account.payment_day)
    ELSE effective_date

create_single_transaction(description, amount, category, budget, account, transaction_date, grace_period_months, is_income) ==
    [date_created |-> transaction_date,
     date_payed |-> PaymentDate(account,
                        AddMonths(transaction_date, grace_period_months)),
     description |-> description,
     account |-> account.account_id,
     amount |-> IF is_income THEN Abs(amount) ELSE 0 - Abs(amount),
     category |-> category,
     budget |-> budget,
     status |-> "committed",
     origin_id |-> "None"]

\* total_installments = 0 stands for None.
create_installment_transactions(description, total_amount, installments, category, budget, account, transaction_date, grace_period_months, start_from_installment, total_installments, origin_id) ==
    LET final_total_installments ==
            IF total_installments # 0 THEN total_installments ELSE installments
        installment_amount == RoundDiv(Abs(total_amount), final_total_installments)
        count ==
            IF total_installments # 0
            THEN Max2(0, Min2(installments,
                              total_installments - start_from_installment + 1))
            ELSE Max2(0, installments)
    IN  [j \in 1..count |->
            [date_created |-> transaction_date,
             date_payed |-> PaymentDate(account,
                   AddMonths(transaction_date, (j - 1) + grace_period_months)),
             description |-> [text |-> description.text,
                              n |-> start_from_installment + (j - 1),
                              k |-> final_total_installments],
             account |-> account.account_id,
             amount |-> 0 - installment_amount,
             category |-> category,
             budget |-> budget,
             status |-> "committed",
             origin_id |-> origin_id]]

create_split_transactions(description, splits, account, transaction_date, origin_id) ==
    [j \in 1..Len(splits) |->
        [create_single_transaction(description, splits[j].amount,
             splits[j].category, splits[j].budget, account,
             transaction_date, 0, FALSE)
         EXCEPT !.origin_id = origin_id]]

create_budget_release_transaction(budget_id, budget_name, release_amount, account, month_date) ==
    [date_created |-> month_date,
     date_payed |-> month_date,
     description |-> Desc("Budget Release"),
     account |-> account.account_id,
     amount |-> Abs(release_amount),
     category |-> "Budget Release",
     budget |-> budget_id,
     status |-> "committed",
     origin_id |-> budget_id]

\* _generate_origin_id: a fresh group id (the uuid suffix is taken to be new).
GroupIds == <<"G1", "G2", "G3", "G4", "G5", "G6", "G7", "G8">>

_generate_origin_id(S) == GroupIds[S.ng]

(***************************************************************************)
(* main.py: the controller.  A store S is [tx, subs, nid, ng]: the rows,   *)
(* the subscriptions, the next AUTOINCREMENT id and the index of the next  *)
(* group id.  A handler's result is [raised, S]: whether it raised, and    *)
(* the store it leaves (every repository call commits on its own, so what  *)
(* was written before a raise stays written).                              *)
(***************************************************************************)
Ok(S) == [raised |-> FALSE, S |-> S]

Raise(S) == [raised |-> TRUE, S |-> S]

_recalculate_and_update_budget(S, budget_id, month_date) ==
    IF get_subscription_by_id(S.subs, budget_id) = {} THEN S
    ELSE
      LET total_budget_amount == S.subs[budget_id].monthly_amount
          total_spent ==
              get_total_spent_for_budget_in_month(S.tx, budget_id, month_date)
          amount_to_apply == Min2(total_spent, total_budget_amount)
          new_allocation_amount == (0 - total_budget_amount) + amount_to_apply
          allocation ==
              get_budget_allocation_for_month(S.tx, budget_id, month_date)
      IN  IF allocation = {} THEN S
          ELSE [S EXCEPT !.tx = update_transaction_amount(
                    S.tx, FirstRow(allocation).id, new_allocation_amount)]

\* Heal every (budget, month_date) pair of a set; the pairs are recalculated
\* one after the other.
RECURSIVE RecalculateAll(_, _)
RecalculateAll(S, pairs) ==
    IF pairs = {} THEN S
    ELSE LET p == CHOOSE x \in pairs : TRUE
         IN  RecalculateAll(_recalculate_and_update_budget(S, p[1], p[2]),
                            pairs \ {p})

\* A variant of _get_transaction_group_info without its subscription case:
\* a subscription's rows are classified by their payment dates alone.
GroupInfoWithoutSubscriptionCase(S, transaction) ==
    IF transaction.origin_id = "None"
    THEN [type |-> "simple", origin_id |-> "None", siblings |-> <<transaction>>]
    ELSE
      LET siblings == get_transactions_by_origin_id(S.tx, transaction.origin_id)
          payment_dates == {siblings[i].date_payed : i \in 1..Len(siblings)}
      IN  [type |-> IF Cardinality(payment_dates) = 1 THEN "split"
                    ELSE "installment",
           origin_id |-> transaction.origin_id,
           siblings |-> siblings]

\* A variant of _get_transaction_group_info that tells a split from an
\* installment plan by the number of siblings, not of payment dates.
GroupInfoBySiblingCount(S, transaction) ==
    IF transaction.origin_id = "None"
    THEN [type |-> "simple", origin_id |-> "None", siblings |-> <<transaction>>]
    ELSE
      LET siblings == get_transactions_by_origin_id(S.tx, transaction.origin_id)
      IN  [type |-> IF get_subscription_by_id(S.subs, transaction.origin_id) # {}
                    THEN "subscription"
                    ELSE IF Len(siblings) = 1 THEN "split"
                    ELSE "installment",
           origin_id |-> transaction.origin_id,
           siblings |-> siblings]

\* [type, origin_id, siblings] of the group of a row that exists.
_get_transaction_group_info(S, transaction) ==
    IF transaction.origin_id = "None"
    THEN [type |-> "simple", origin_id |-> "None", siblings |-> <<transaction>>]
    ELSE
      LET siblings == get_transactions_by_origin_id(S.tx, transaction.origin_id)
          payment_dates == {siblings[i].date_payed : i \in 1..Len(siblings)}
      IN  [type |-> IF get_subscription_by_id(S.subs, transaction.origin_id) # {}
                    THEN "subscription"
                    ELSE IF Cardinality(payment_dates) = 1 THEN "split"
                    ELSE "installment",
           origin_id |-> transaction.origin_id,
           siblings |-> siblings]

\* A variant of _apply_expense_to_budget that debits the allocation of the
\* month of the purchase, not of the payment.
ApplyExpenseToPurchaseMonth(S, transaction) ==
    IF transaction.budget = "None" THEN S
    ELSE
      LET budget_id == transaction.budget
          target_month == transaction.date_created
          found == get_budget_allocation_for_month(S.tx, budget_id, target_month)
      IN  IF found = {} /\ get_subscription_by_id(S.subs, budget_id) = {} THEN S
          ELSE
            LET budget_sub == S.subs[budget_id]
                new_allocation_trans ==
                    [create_single_transaction(
                         Desc(budget_sub.name), budget_sub.monthly_amount,
                         budget_sub.category, budget_id,
                         get_account_by_name(budget_sub.payment_account_id),
                         ReplaceDay(target_month, 1), 0, FALSE)
                     EXCEPT !.status = "forecast", !.origin_id = budget_id]
                S1 == IF found = {}
                      THEN add_transactions(S, <<new_allocation_trans>>)
                      ELSE S
                allocation ==
                    get_budget_allocation_for_month(S1.tx, budget_id, target_month)
            IN  IF allocation = {} THEN S1
                ELSE
                  LET a == FirstRow(allocation)
                      amount_to_apply ==
                          Min2(Abs(transaction.amount), Abs(a.amount))
                  IN  [S1 EXCEPT !.tx = update_transaction_amount(
                           S1.tx, a.id, a.amount + amount_to_apply)]

\* A variant of _apply_expense_to_budget that dates the allocation it creates
\* on the payment date itself, not on the first day of its month.
ApplyExpenseAllocatingOnPaymentDay(S, transaction) ==
    IF transaction.budget = "None" THEN S
    ELSE
      LET budget_id == transaction.budget
          target_month == transaction.date_payed
          found == get_budget_allocation_for_month(S.tx, budget_id, target_month)
      IN  IF found = {} /\ get_subscription_by_id(S.subs, budget_id) = {} THEN S
          ELSE
            LET budget_sub == S.subs[budget_id]
                new_allocation_trans ==
                    [create_single_transaction(
                         Desc(budget_sub.name), budget_sub.monthly_amount,
                         budget_sub.category, budget_id,
                         get_account_by_name(budget_sub.payment_account_id),
                         target_month, 0, FALSE)
                     EXCEPT !.status = "forecast", !.origin_id = budget_id]
                S1 == IF found = {}
                      THEN add_transactions(S, <<new_allocation_trans>>)
                      ELSE S
                allocation ==
                    get_budget_allocation_for_month(S1.tx, budget_id, target_month)
            IN  IF allocation = {} THEN S1
                ELSE
                  LET a == FirstRow(allocation)
                      amount_to_apply ==
                          Min2(Abs(transaction.amount), Abs(a.amount))
                  IN  [S1 EXCEPT !.tx = update_transaction_amount(
                           S1.tx, a.id, a.amount + amount_to_apply)]

\* A variant of _apply_expense_to_budget that applies the whole expense, not
\* the smaller of the expense and the remaining allocation.
ApplyExpenseUncapped(S, transaction) ==
    IF transaction.budget = "None" THEN S
    ELSE
      LET budget_id == transaction.budget
          target_month == transaction.date_payed
          found == get_budget_allocation_for_month(S.tx, budget_id, target_month)
      IN  IF found = {} /\ get_subscription_by_id(S.subs, budget_id) = {} THEN S
          ELSE
            LET budget_sub == S.subs[budget_id]
                new_allocation_trans ==
                    [create_single_transaction(
                         Desc(budget_sub.name), budget_sub.monthly_amount,
                         budget_sub.category, budget_id,
                         get_account_by_name(budget_sub.payment_account_id),
                         ReplaceDay(target_month, 1), 0, FALSE)
                     EXCEPT !.status = "forecast", !.origin_id = budget_id]
                S1 == IF found = {}
                      THEN add_transactions(S, <<new_allocation_trans>>)
                      ELSE S
                allocation ==
                    get_budget_allocation_for_month(S1.tx, budget_id, target_month)
            IN  IF allocation = {} THEN S1
                ELSE
                  LET a == FirstRow(allocation)
                  IN  [S1 EXCEPT !.tx = update_transaction_amount(
                           S1.tx, a.id, a.amount + Abs(transaction.amount))]

_apply_expense_to_budget(S, transaction) ==
    IF transaction.budget = "None" THEN S
    ELSE
      LET budget_id == transaction.budget
          target_month == transaction.date_payed
          found == get_budget_allocation_for_month(S.tx, budget_id, target_month)
      IN  IF found = {} /\ get_subscription_by_id(S.subs, budget_id) = {} THEN S
          ELSE
            LET budget_sub == S.subs[budget_id]
                new_allocation_trans ==
                    [create_single_transaction(
                         Desc(budget_sub.name), budget_sub.monthly_amount,
                         budget_sub.category, budget_id,
                         get_account_by_name(budget_sub.payment_account_id),
                         ReplaceDay(target_month, 1), 0, FALSE)
                     EXCEPT !.status = "forecast", !.origin_id = budget_id]
                S1 == IF found = {}
                      THEN add_transactions(S, <<new_allocation_trans>>)
                      ELSE S
                allocation ==
                    get_budget_allocation_for_month(S1.tx, budget_id, target_month)
            IN  IF allocation = {} THEN S1
                ELSE
                  LET a == FirstRow(allocation)
                      amount_to_apply ==
                          Min2(Abs(transaction.amount), Abs(a.amount))
                  IN  [S1 EXCEPT !.tx = update_transaction_amount(
                           S1.tx, a.id, a.amount + amount_to_apply)]

RECURSIVE ApplyAll(_, _, _)
ApplyAll(S, rows, i) ==
    IF i > Len(rows) THEN S
    ELSE ApplyAll(_apply_expense_to_budget(S, rows[i]), rows, i + 1)

\* A request is [type, description, amount, total_amount, installments,
\* splits, account, category, budget, grace_period_months].
process_transaction_request(S, request, transaction_date) ==
    LET account == get_account_by_name(request.account)
        origin_id == _generate_origin_id(S)
        new_transactions ==
            CASE request.type = "simple" ->
                   <<create_single_transaction(
                        request.description, request.amount, request.category,
                        request.budget, account, transaction_date,
                        request.grace_period_months, FALSE)>>
              [] request.type = "installment" ->
                   create_installment_transactions(
                        request.description, request.total_amount,
                        request.installments, request.category, request.budget,
                        account, transaction_date,
                        request.grace_period_months, 1, 0, origin_id)
              [] request.type = "split" ->
                   create_split_transactions(
                        request.description, request.splits, account,
                        transaction_date, origin_id)
              [] OTHER -> <<>>
    IN  IF account = NoAccount THEN Raise(S)
        ELSE IF request.type \notin {"simple", "installment", "split"}
        THEN Raise(S)
        ELSE IF request.type = "installment" /\ request.installments = 0
        THEN Raise(S)
        ELSE IF \E i \in 1..Len(new_transactions) :
                    new_transactions[i].date_payed = ValueError
        THEN Raise(S)
        ELSE IF new_transactions = <<>> THEN Ok(S)
        ELSE Ok(ApplyAll(
                 [add_transactions(S, new_transactions)
                    EXCEPT !.ng = IF request.type = "simple" THEN S.ng
                                  ELSE S.ng + 1],
                 new_transactions, 1))

process_transaction_update(S, transaction_id, updates) ==
    IF get_transaction_by_id(S.tx, transaction_id) = {} THEN Raise(S)
    ELSE
      LET original_transaction ==
              FirstRow(get_transaction_by_id(S.tx, transaction_id))
          S1 == [S EXCEPT !.tx = update_transaction(S.tx, transaction_id, updates)]
          updated_transaction ==
              FirstRow(get_transaction_by_id(S1.tx, transaction_id))
          budgets_to_recalculate ==
              {<<t.budget, t.date_payed>> :
                  t \in {x \in {original_transaction, updated_transaction} :
                            x.budget # "None"}}
      IN  Ok(RecalculateAll(S1, budgets_to_recalculate))

process_transaction_deletion(S, transaction_id) ==
    IF get_transaction_by_id(S.tx, transaction_id) = {} THEN Ok(S)
    ELSE
      LET transaction_to_delete ==
              FirstRow(get_transaction_by_id(S.tx, transaction_id))
          S1 == [S EXCEPT !.tx = delete_transaction(S.tx, transaction_id)]
      IN  IF transaction_to_delete.budget = "None" THEN Ok(S1)
          ELSE Ok(_recalculate_and_update_budget(
                      S1, transaction_to_delete.budget,
                      transaction_to_delete.date_payed))

\* Steps 3 to 5 of a conversion or a date change: collect the (budget, month)
\* pairs of the siblings, delete the siblings, recalculate the pairs.
DeleteAndHeal(S, siblings) ==
    LET budgets_to_heal ==
            {<<siblings[i].budget, siblings[i].date_payed>> :
                i \in {j \in 1..Len(siblings) : siblings[j].budget # "None"}}
        ids == {siblings[i].id : i \in 1..Len(siblings)}
    IN  RecalculateAll([S EXCEPT !.tx = {r \in S.tx : r.id \notin ids}],
                       budgets_to_heal)

\* conversion_details is a request whose type field is the target_type.
process_transaction_conversion(S, transaction_id, conversion_details) ==
    IF get_transaction_by_id(S.tx, transaction_id) = {} THEN Raise(S)
    ELSE
      LET group_info == _get_transaction_group_info(
              S, FirstRow(get_transaction_by_id(S.tx, transaction_id)))
          original_date == group_info.siblings[1].date_created
      IN  IF group_info.type = "subscription" THEN Raise(S)
          ELSE process_transaction_request(
                   DeleteAndHeal(S, group_info.siblings),
                   conversion_details, original_date)

RECURSIVE SumAbs(_, _)
SumAbs(rows, i) ==
    IF i > Len(rows) THEN 0 ELSE Abs(rows[i].amount) + SumAbs(rows, i + 1)

\* description.split('(')[0].strip(): the text before the "(n/k)" suffix.
StripSuffix(description) == Desc(description.text)

process_transaction_date_update(S, transaction_id, new_date) ==
    IF get_transaction_by_id(S.tx, transaction_id) = {} THEN Raise(S)
    ELSE
      LET group_info == _get_transaction_group_info(
              S, FirstRow(get_transaction_by_id(S.tx, transaction_id)))
          original_siblings == group_info.siblings
          first_sibling == original_siblings[1]
          recreation_context ==
              [type |-> group_info.type,
               description |->
                   IF group_info.type = "installment"
                   THEN StripSuffix(first_sibling.description)
                   ELSE first_sibling.description,
               amount |-> Abs(first_sibling.amount),
               total_amount |-> SumAbs(original_siblings, 1),
               installments |-> Len(original_siblings),
               splits |-> [i \in 1..Len(original_siblings) |->
                              [amount |-> Abs(original_siblings[i].amount),
                               category |-> original_siblings[i].category,
                               budget |-> original_siblings[i].budget]],
               account |-> first_sibling.account,
               category |-> first_sibling.category,
               budget |-> first_sibling.budget,
               grace_period_months |-> 0]
      IN  IF group_info.type = "subscription" THEN Raise(S)
          ELSE process_transaction_request(
                   DeleteAndHeal(S, original_siblings),
                   recreation_context, new_date)

(***************************************************************************)
(* main.py: the forecast scheduler                                         *)
(***************************************************************************)
\* Subscriptions in the order the subscriptions table returns them.
SubOrder == <<"budget_food", "sub_netflix">>

\* settings["forecast_horizon_months"]
forecast_horizon_months == 2

\* A variant of RecurrenceDate that takes the first day of the month.
RecurrenceOnFirst(mi, day) == MkDate(mi, 1)

\* date(year, month, day) of create_recurrent_transactions, with its
\* fallback to the last day of the month.
RecurrenceDate(mi, day) ==
    IF day <= DaysIn(mi) THEN MkDate(mi, day) ELSE MkDate(mi, DaysIn(mi))

\* A variant of InitialAmount without the seeding by committed expenses.
InitialAmountUnseeded(T, sub, mi) == sub.monthly_amount

\* A variant of InitialAmount whose seeded amount is not capped at 0.
InitialAmountUncapped(T, sub, mi) ==
    LET total_committed ==
            get_total_committed_for_budget_in_month(T, sub.id, MkDate(mi, 1))
    IN  IF sub.is_budget /\ total_committed > 0
        THEN (0 - sub.monthly_amount) + total_committed
        ELSE sub.monthly_amount

\* initial_amounts.get(month_key, monthly_amount) for the month mi.
InitialAmount(T, sub, mi) ==
    LET total_committed ==
            get_total_committed_for_budget_in_month(T, sub.id, MkDate(mi, 1))
    IN  IF sub.is_budget /\ total_committed > 0
        THEN Min2(0, (0 - sub.monthly_amount) + total_committed)
        ELSE sub.monthly_amount

RECURSIVE create_recurrent_transactions(_, _, _, _, _, _)
create_recurrent_transactions(T, subscription, account, start_period, end_period, current_date) ==
    IF current_date > end_period THEN <<>>
    ELSE
      LET transaction_date ==
              RecurrenceDate(MonthOf(current_date), DayOf(subscription.start_date))
          trans ==
              [create_single_transaction(
                   Desc(subscription.name),
                   InitialAmount(T, subscription, MonthOf(transaction_date)),
                   subscription.category, "None", account, transaction_date,
                   0, subscription.is_income)
               EXCEPT !.status = "forecast",
                      !.origin_id = subscription.id,
                      !.budget = IF subscription.is_budget
                                 THEN subscription.id ELSE "None"]
      IN  (IF transaction_date >= start_period /\ transaction_date <= end_period
           THEN <<trans>> ELSE <<>>)
          \o create_recurrent_transactions(T, subscription, account,
                 start_period, end_period, AddMonths(current_date, 1))

\* The last row of reversed(all_transactions) that is a forecast of the
\* subscription: the one paid last (the most recently inserted among ties).
LastForecast(T, sub_id) ==
    LET F == {t \in T : t.origin_id = sub_id /\ t.status = "forecast"}
    IN  IF F = {} THEN {}
        ELSE {CHOOSE t \in F : \A u \in F :
                 \/ u.date_payed < t.date_payed
                 \/ (u.date_payed = t.date_payed /\ u.id <= t.id)}

\* The body of generate_forecasts' loop for one subscription; all is the
\* table as read before the loop.
GenerateFor(S, all, sub, today, horizon_date) ==
    LET last_forecast == LastForecast(all, sub.id)
        start_period ==
            IF last_forecast # {}
            THEN ReplaceDay(
                   AddMonths((CHOOSE t \in last_forecast : TRUE).date_created, 1), 1)
            ELSE ReplaceDay(Max2(sub.start_date, today), 1)
        end_period ==
            IF sub.end_date # NoDate /\ sub.end_date <= horizon_date
            THEN sub.end_date ELSE horizon_date
        account == get_account_by_name(sub.payment_account_id)
    IN  IF start_period > end_period \/ account = NoAccount THEN S
        ELSE add_transactions(S,
                 create_recurrent_transactions(S.tx, sub, account,
                     start_period, end_period, start_period))

RECURSIVE GenerateLoop(_, _, _, _, _)
GenerateLoop(S, all, i, today, horizon_date) ==
    IF i > Len(SubOrder) THEN S
    ELSE
      LET id == SubOrder[i]
          S1 == IF id \in get_all_active_subscriptions(S.subs, today, horizon_date)
                THEN GenerateFor(S, all, S.subs[id], today, horizon_date)
                ELSE S
      IN  GenerateLoop(S1, all, i + 1, today, horizon_date)

generate_forecasts(S, horizon_months, from_date) ==
    GenerateLoop(S, S.tx, 1, from_date, AddMonths(from_date, horizon_months))

process_budget_update(S, budget_id, new_amount, effective_date) ==
    IF get_subscription_by_id(S.subs, budget_id) = {} THEN S
    ELSE
      LET S1 == [S EXCEPT !.subs[budget_id].monthly_amount = new_amount]
          effective_month_start == ReplaceDay(effective_date, 1)
          allocation_for_effective_month ==
              get_budget_allocation_for_month(S1.tx, budget_id, effective_month_start)
          total_spent ==
              get_total_spent_for_budget_in_month(S1.tx, budget_id, effective_month_start)
          new_live_balance == Min2(0, (0 - Abs(new_amount)) + total_spent)
          S2 == IF /\ allocation_for_effective_month # {}
                   /\ FirstRow(allocation_for_effective_month).status = "committed"
                THEN [S1 EXCEPT !.tx = update_transaction_amount(
                         S1.tx, FirstRow(allocation_for_effective_month).id,
                         new_live_balance)]
                ELSE S1
          S3 == [S2 EXCEPT !.tx = delete_future_budget_allocations(
                     S2.tx, budget_id, effective_month_start)]
      IN  generate_forecasts(S3, forecast_horizon_months, effective_date)

\* A variant of ReconcileOne that adds the release and leaves the
\* allocation at its amount.
ReconcileKeepingAllocation(S, budget_sub, month_date) ==
    LET allocation ==
            get_budget_allocation_for_month(S.tx, budget_sub.id, month_date)
    IN  IF /\ allocation # {}
           /\ FirstRow(allocation).amount < 0
           /\ budget_sub.underspend_behavior = "return"
        THEN add_transactions(S, <<create_budget_release_transaction(
                     budget_sub.id, budget_sub.name,
                     Abs(FirstRow(allocation).amount),
                     get_account_by_name(budget_sub.payment_account_id),
                     month_date)>>)
        ELSE S

\* A variant of ReconcileOne that releases the underspend of every budget,
\* whatever its underspend_behavior.
ReconcileWhateverPolicy(S, budget_sub, month_date) ==
    LET allocation ==
            get_budget_allocation_for_month(S.tx, budget_sub.id, month_date)
    IN  IF /\ allocation # {}
           /\ FirstRow(allocation).amount < 0
        THEN LET release_trans == create_budget_release_transaction(
                     budget_sub.id, budget_sub.name,
                     Abs(FirstRow(allocation).amount),
                     get_account_by_name(budget_sub.payment_account_id),
                     month_date)
                 S1 == add_transactions(S, <<release_trans>>)
             IN  [S1 EXCEPT !.tx = update_transaction_amount(
                      S1.tx, FirstRow(allocation).id, 0)]
        ELSE S

ReconcileOne(S, budget_sub, month_date) ==
    LET allocation ==
            get_budget_allocation_for_month(S.tx, budget_sub.id, month_date)
    IN  IF /\ allocation # {}
           /\ FirstRow(allocation).amount < 0
           /\ budget_sub.underspend_behavior = "return"
        THEN LET release_trans == create_budget_release_transaction(
                     budget_sub.id, budget_sub.name,
                     Abs(FirstRow(allocation).amount),
                     get_account_by_name(budget_sub.payment_account_id),
                     month_date)
                 S1 == add_transactions(S, <<release_trans>>)
             IN  [S1 EXCEPT !.tx = update_transaction_amount(
                      S1.tx, FirstRow(allocation).id, 0)]
        ELSE S

RECURSIVE ReconcileLoop(_, _, _)
ReconcileLoop(S, i, month_date) ==
    IF i > Len(SubOrder) THEN S
    ELSE
      LET id == SubOrder[i]
          S1 == IF /\ id \in get_all_active_subscriptions(S.subs, month_date, month_date)
                   /\ S.subs[id].is_budget
                THEN ReconcileOne(S, S.subs[id], month_date)
                ELSE S
      IN  ReconcileLoop(S1, i + 1, month_date)

run_monthly_budget_reconciliation(S, month_date) ==
    ReconcileLoop(S, 1, month_date)

run_monthly_rollover(S, process_date) ==
    generate_forecasts(
        [S EXCEPT !.tx = commit_past_and_current_forecasts(S.tx, process_date)],
        forecast_horizon_months, process_date)

(***************************************************************************)
(* interface.py: the credit-card summary of view_transactions.  A listing  *)
(* is the sequence get_transactions_with_running_balance returns.          *)
(***************************************************************************)
\* '--', the id of a summary row; no stored row has id 0.
SummaryId == 0

\* The sort key that stands for the id of a summary row.
SummarySortId == 999999

credit_card_accounts ==
    {a \in DOMAIN Accounts : Accounts[a].account_type = "credit_card"}

\* The positions of the rows of listing L that are summed into payments.
Summarized(L, include_planning) ==
    {i \in 1..Len(L) : /\ L[i].account \in credit_card_accounts
                       /\ (include_planning \/ L[i].status # "planning")}

\* The positions summed under the key (account, date_payed).
PaymentGroup(L, include_planning, account, date_payed) ==
    {i \in Summarized(L, include_planning) :
        L[i].account = account /\ L[i].date_payed = date_payed}

LastOf(I) == CHOOSE i \in I : \A j \in I : j <= i

FirstOf(I) == CHOOSE i \in I : \A j \in I : i <= j

\* A variant of PaymentStatus that ranks pending above committed.
PaymentStatusPendingFirst(statuses) ==
    IF "pending" \in statuses THEN "pending"
    ELSE IF "committed" \in statuses THEN "committed"
    ELSE IF "planning" \in statuses THEN "planning"
    ELSE "forecast"

PaymentStatus(statuses) ==
    IF "committed" \in statuses THEN "committed"
    ELSE IF "pending" \in statuses THEN "pending"
    ELSE IF "planning" \in statuses THEN "planning"
    ELSE "forecast"

\* summary_trans of the group at positions I of L.
summary_trans(L, I) ==
    LET account == L[FirstOf(I)].account
        date_payed == L[FirstOf(I)].date_payed
    IN  [id |-> SummaryId, date_payed |-> date_payed,
         date_created |-> date_payed,
         description |-> Desc(account \o " Payment"), account |-> account,
         amount |-> SumAmount({L[i] : i \in I}),
         category |-> "Credit Card", budget |-> "",
         status |-> PaymentStatus({L[i].status : i \in I}),
         origin_id |-> "None",
         running_balance |-> L[LastOf(I)].running_balance]

\* The entries of other_transactions + summary_transactions +
\* planning_transactions: a row, and its position in that list (the rows
\* that pass through, then the payments in the order their keys first
\* appear; the sort is stable and only payments can tie).
Entries(L, include_planning) ==
    {[row |-> L[i], place |-> 0] :
        i \in (1..Len(L)) \ Summarized(L, include_planning)}
    \cup {[row |-> summary_trans(L, PaymentGroup(L, include_planning,
                                     L[i].account, L[i].date_payed)),
           place |-> FirstOf(PaymentGroup(L, include_planning,
                                     L[i].account, L[i].date_payed))] :
            i \in Summarized(L, include_planning)}

SortId(row) == IF row.id = SummaryId THEN SummarySortId ELSE row.id

Before(e, f) ==
    \/ e.row.date_payed < f.row.date_payed
    \/ /\ e.row.date_payed = f.row.date_payed
       /\ \/ SortId(e.row) < SortId(f.row)
          \/ SortId(e.row) = SortId(f.row) /\ e.place <= f.place

\* sorted(..., key=(date_payed, id or 999999)).
RECURSIVE Combined(_)
Combined(E) ==
    IF E = {} THEN <<>>
    ELSE LET e == CHOOSE x \in E : \A y \in E : Before(x, y)
         IN  <<e.row>> \o Combined(E \ {e})

\* display_transactions of view_transactions, before the date filter.
view_transactions(T, summary, include_planning) ==
    LET all_transactions == get_transactions_with_running_balance(T)
    IN  IF ~summary THEN all_transactions
        ELSE Combined(Entries(all_transactions, include_planning))

(***************************************************************************)
(* The state machine: one action per controller or scheduler entry point.  *)
(* last records the call just made, prev and prev_subs the tables before   *)
(* it, ops the kinds of call made so far, max_amount the largest           *)
(* monthly_amount each subscription has had.                               *)
(***************************************************************************)
MaxSteps == 3

Oct(d) == MkDate(9, d)

Nov(d) == MkDate(10, d)

Req(type, text, amount, total_amount, installments, splits, account, budget, grace_period_months) ==
    [type |-> type, description |-> Desc(text), amount |-> amount,
     total_amount |-> total_amount, installments |-> installments,
     splits |-> splits, account |-> account, category |-> "Food",
     budget |-> budget, grace_period_months |-> grace_period_months]

NullReq == Req("None", "None", 0, 0, 0, <<>>, "None", "None", 0)

SimpleRequests ==
    {Req("simple", "Meal", 3, 0, 0, <<>>, a, "budget_food", 0) :
        a \in {"Cash", "Visa Produbanco"}}
    \cup {Req("simple", "Meal", 6, 0, 0, <<>>, "Cash", "budget_food", 0),
          Req("simple", "Meal", 3, 0, 0, <<>>, "Cash", "None", 0),
          Req("simple", "Meal", 3, 0, 0, <<>>, "Cash", "budget_food", 1)}

InstallmentRequests ==
    {Req("installment", "Coat", 0, 6, n, <<>>, a, "budget_food", 0) :
        n \in {1, 2}, a \in {"Cash", "Visa Produbanco"}}

SplitRequests ==
    {Req("split", "Shop", 0, 0, 0,
         <<[amount |-> 3, category |-> "Food", budget |-> "budget_food"],
           [amount |-> 2, category |-> "Home", budget |-> "None"]>>,
         "Cash", "None", 0)}

BadRequests ==
    {Req("simple", "Meal", 3, 0, 0, <<>>, "Nope", "budget_food", 0),
     Req("recurring", "Meal", 3, 0, 0, <<>>, "Cash", "budget_food", 0)}

AddRequests == SimpleRequests \cup InstallmentRequests \cup SplitRequests
                  \cup BadRequests

ConversionDetails ==
    {Req("simple", "Meal", 3, 0, 0, <<>>, "Cash", "budget_food", 0),
     Req("simple", "Coat", 6, 0, 0, <<>>, "Cash", "budget_food", 0),
     Req("installment", "Coat", 0, 6, 2, <<>>, "Cash", "budget_food", 0),
     Req("installment", "Meal", 0, 3, 2, <<>>, "Visa Produbanco", "budget_food", 0)}
    \cup BadRequests

PurchaseDates == {Oct(10), Oct(20)}

NewDates == {Oct(20), Nov(5)}

ProcessDates == {Oct(15), Nov(15)}

EffectiveDates == {Oct(15), Nov(1)}

NewAmounts == {2, 6}

Updates ==
    {[amount |-> 0 - 3], [amount |-> 0 - 6], [budget |-> "None"],
     [budget |-> "budget_food"], [status |-> "pending"],
     [status |-> "committed"]}

Budget(underspend_behavior) ==
    [id |-> "budget_food", name |-> "Food Budget", category |-> "Food",
     monthly_amount |-> 4, payment_account_id |-> "Cash",
     start_date |-> Oct(1), end_date |-> NoDate, is_budget |-> TRUE,
     underspend_behavior |-> underspend_behavior, is_income |-> FALSE]

\* calc holds one run of the payment-date computation: its inputs, and its
\* result once computed.
NoCalc == [date |-> 0, cut_off_day |-> 0, payment_day |-> 0,
           grace_period_months |-> 0, computed |-> FALSE, result |-> 0]

\* The updates of a call that is not an edit.
NoUpdates == [none |-> TRUE]

\* listing holds the rows the last query of the store returned; a call that
\* may change the store discards it.
NoListing == [queried |-> FALSE, rows |-> <<>>]

\* context.user_data after clear(): no pending transaction, no original
\* message, no correction awaited, no preview.
NoUserData ==
    [pending_transaction |-> NullReq, original_message |-> "None",
     awaiting_correction |-> FALSE, preview_message_id |-> 0]

\* The chat of the Telegram bot with one user: the user's data, the messages
\* the bot has sent (a message's id is its position), the updates Telegram
\* has not delivered yet, and, for the record, the number of parses so far,
\* the parse that produced the pending transaction, and the calls of
\* process_transaction_request made by handle_confirm.
NoBot ==
    [user_data |-> NoUserData, messages |-> <<>>, updates |-> <<>>,
     sent |-> 0, parses |-> 0, pending_parse |-> 0, calls |-> <<>>]

NoCall == [op |-> "None", id |-> 0, raised |-> FALSE, req |-> NullReq,
           date |-> 0, updates |-> NoUpdates]

Store == [tx |-> transactions, subs |-> subscriptions, nid |-> next_id,
          ng |-> next_origin]

Init ==
    /\ transactions = {}
    /\ \E u \in {"keep", "return"} :
          subscriptions = [id \in {"budget_food"} |-> Budget(u)]
    /\ next_id = 1
    /\ next_origin = 1
    /\ last = NoCall
    /\ prev = {}
    /\ prev_subs = subscriptions
    /\ steps = 0
    /\ calc = NoCalc
    /\ ops = {}
    /\ max_amount = [id \in DOMAIN subscriptions |-> subscriptions[id].monthly_amount]
    /\ listing = NoListing
    /\ bot = NoBot

\* The kind of a call: its name, an edit of a row a subscription generated
\* (an allocation, a release) being a kind of its own.
OpKind(op, id) ==
    IF op = "edit" /\ \E r \in transactions :
                          r.id = id /\ r.origin_id \in DOMAIN subscriptions
    THEN "edit_subscription_row" ELSE op

\* The effect of one call on the store: the store the handler leaves, and
\* the record of the call.
Record(op, id, req, date, updates, R) ==
    /\ transactions' = R.S.tx
    /\ subscriptions' = R.S.subs
    /\ next_id' = R.S.nid
    /\ next_origin' = R.S.ng
    /\ last' = [op |-> op, id |-> id, raised |-> R.raised, req |-> req,
                date |-> date, updates |-> updates]
    /\ prev' = transactions
    /\ prev_subs' = subscriptions
    /\ steps' = steps + 1
    /\ ops' = ops \cup {OpKind(op, id)}
    /\ max_amount' = [b \in DOMAIN R.S.subs |->
                         Max2(max_amount[b], R.S.subs[b].monthly_amount)]
    /\ listing' = NoListing

\* A call made from the command line or a test: the chat is not involved.
Call(op, id, req, date, updates, R) ==
    /\ Record(op, id, req, date, updates, R)
    /\ UNCHANGED <<calc, bot>>

Ids == {r.id : r \in transactions}

AddFrom(requests, dates, bound) ==
    /\ steps < bound
    /\ \E req \in requests, d \in dates :
        Call("add", 0, req, d, NoUpdates,
             process_transaction_request(Store, req, d))

Add == AddFrom(AddRequests, PurchaseDates, MaxSteps)

Edit ==
    /\ steps < MaxSteps
    /\ \E id \in Ids \cup {0}, u \in Updates :
        Call("edit", id, NullReq, 0, u,
             process_transaction_update(Store, id, u))

Delete ==
    /\ steps < MaxSteps
    /\ \E id \in Ids \cup {0} :
        Call("delete", id, NullReq, 0, NoUpdates,
             process_transaction_deletion(Store, id))

ConvertFrom(details_set, bound) ==
    /\ steps < bound
    /\ \E id \in Ids \cup {0}, details \in details_set :
        Call("convert", id, details, 0, NoUpdates,
             process_transaction_conversion(Store, id, details))

Convert == ConvertFrom(ConversionDetails, MaxSteps)

DateChange ==
    /\ steps < MaxSteps
    /\ \E id \in Ids \cup {0}, d \in NewDates :
        Call("date_change", id, NullReq, d, NoUpdates,
             process_transaction_date_update(Store, id, d))

BudgetUpdate ==
    /\ steps < MaxSteps
    /\ \E a \in NewAmounts, d \in EffectiveDates :
        Call("budget_update", 0, NullReq, d, [monthly_amount |-> a],
             Ok(process_budget_update(Store, "budget_food", a, d)))

GenerateForecasts ==
    /\ steps < MaxSteps
    /\ \E d \in ProcessDates :
        Call("generate_forecasts", 0, NullReq, d, NoUpdates,
             Ok(generate_forecasts(Store, forecast_horizon_months, d)))

Reconcile ==
    /\ steps < MaxSteps
    /\ \E d \in ProcessDates :
        Call("reconcile", 0, NullReq, d, NoUpdates,
             Ok(run_monthly_budget_reconciliation(Store, d)))

Rollover ==
    /\ steps < MaxSteps
    /\ \E d \in ProcessDates :
        Call("rollover", 0, NullReq, d, NoUpdates,
             Ok(run_monthly_rollover(Store, d)))

Next ==
    \/ Add
    \/ Edit
    \/ Delete
    \/ Convert
    \/ DateChange
    \/ BudgetUpdate
    \/ GenerateForecasts
    \/ Reconcile
    \/ Rollover

Spec == Init /\ [][Next]_vars

(***************************************************************************)
(* Requests that ask for a pending row, among the other additions and the  *)
(* rollover.                                                               *)
(***************************************************************************)
\* request with the key is_pending set to true.
Pending(request) ==
    [f \in DOMAIN request \cup {"is_pending"} |->
        IF f = "is_pending" THEN TRUE ELSE request[f]]

PendingRequests == {Pending(request) : request \in SimpleRequests}

AddPending == AddFrom(PendingRequests, PurchaseDates, MaxSteps)

NextPending ==
    \/ AddPending
    \/ Add
    \/ Rollover

SpecPending == Init /\ [][NextPending]_vars

(***************************************************************************)
(* Requests that log the rest of an installment plan already under way,    *)
(* among the other additions and the rollover.                             *)
(***************************************************************************)
\* request with the keys start_from_installment and total_installments.
PartialPlan(request, start_from_installment, total_installments) ==
    [f \in DOMAIN request \cup {"start_from_installment", "total_installments"} |->
        IF f = "start_from_installment" THEN start_from_installment
        ELSE IF f = "total_installments" THEN total_installments
        ELSE request[f]]

PartialRequests ==
    {PartialPlan(request, s, k) :
        request \in InstallmentRequests, s \in {1, 2}, k \in {2, 3}}

AddPartial == AddFrom(PartialRequests, PurchaseDates, MaxSteps)

NextPartial ==
    \/ AddPartial
    \/ Add
    \/ Rollover

SpecPartial == Init /\ [][NextPartial]_vars

(***************************************************************************)
(* Budgets that start on another day than the first of a month: additions, *)
(* the scheduler and the month-end reconciliation of the month's first day.*)
(***************************************************************************)
StartDates == {Oct(1), Oct(5), MkDate(7, 31)}

BudgetFrom(underspend_behavior, start_date) ==
    [Budget(underspend_behavior) EXCEPT !.start_date = start_date]

InitDay ==
    /\ transactions = {}
    /\ \E u \in {"keep", "return"}, d \in StartDates :
          subscriptions = [id \in {"budget_food"} |-> BudgetFrom(u, d)]
    /\ next_id = 1
    /\ next_origin = 1
    /\ last = NoCall
    /\ prev = {}
    /\ prev_subs = subscriptions
    /\ steps = 0
    /\ calc = NoCalc
    /\ ops = {}
    /\ max_amount = [id \in DOMAIN subscriptions |-> subscriptions[id].monthly_amount]
    /\ listing = NoListing
    /\ bot = NoBot

\* run_monthly_budget_reconciliation(conn, current_month_start).
ReconcileMonthStart ==
    /\ steps < MaxSteps
    /\ \E d \in ProcessDates :
        Call("reconcile", 0, NullReq, StartOfMonth(d), NoUpdates,
             Ok(run_monthly_budget_reconciliation(Store, StartOfMonth(d))))

NextDay ==
    \/ Add
    \/ GenerateForecasts
    \/ Rollover
    \/ BudgetUpdate
    \/ ReconcileMonthStart

SpecDay == InitDay /\ [][NextDay]_vars

(***************************************************************************)
(* A budget that ends: additions, the scheduler and the rollover.          *)
(***************************************************************************)
EndDates == {MkDate(MonthOf(Oct(1)), 31), MkDate(MonthOf(Nov(1)), 30)}

BudgetUntil(underspend_behavior, end_date) ==
    [Budget(underspend_behavior) EXCEPT !.end_date = end_date]

InitEnd ==
    /\ transactions = {}
    /\ \E u \in {"keep", "return"}, d \in EndDates :
          subscriptions = [id \in {"budget_food"} |-> BudgetUntil(u, d)]
    /\ next_id = 1
    /\ next_origin = 1
    /\ last = NoCall
    /\ prev = {}
    /\ prev_subs = subscriptions
    /\ steps = 0
    /\ calc = NoCalc
    /\ ops = {}
    /\ max_amount = [id \in DOMAIN subscriptions |-> subscriptions[id].monthly_amount]
    /\ listing = NoListing
    /\ bot = NoBot

NextEnd ==
    \/ Add
    \/ GenerateForecasts
    \/ Rollover

SpecEnd == InitEnd /\ [][NextEnd]_vars

(***************************************************************************)
(* The same calls with the running-balance query between them.             *)
(***************************************************************************)
Query ==
    /\ ~listing.queried
    /\ listing' = [queried |-> TRUE,
                   rows |-> get_transactions_with_running_balance(transactions)]
    /\ UNCHANGED <<transactions, subscriptions, next_id, next_origin,
                   last, prev, prev_subs, steps, calc, ops, max_amount, bot>>

NextQuery ==
    \/ Next
    \/ Query

SpecQuery == Init /\ [][NextQuery]_vars

(***************************************************************************)
(* A budget beside a subscription that is not a budget: additions, budget  *)
(* updates, the scheduler and the rollover.                                *)
(***************************************************************************)
Netflix ==
    [id |-> "sub_netflix", name |-> "Netflix", category |-> "Entertainment",
     monthly_amount |-> 2, payment_account_id |-> "Visa Produbanco",
     start_date |-> Oct(1), end_date |-> NoDate, is_budget |-> FALSE,
     underspend_behavior |-> "keep", is_income |-> FALSE]

InitTwo ==
    /\ transactions = {}
    /\ \E u \in {"keep", "return"} :
          subscriptions = [id \in {"budget_food", "sub_netflix"} |->
                              IF id = "budget_food" THEN Budget(u) ELSE Netflix]
    /\ next_id = 1
    /\ next_origin = 1
    /\ last = NoCall
    /\ prev = {}
    /\ prev_subs = subscriptions
    /\ steps = 0
    /\ calc = NoCalc
    /\ ops = {}
    /\ max_amount = [id \in DOMAIN subscriptions |-> subscriptions[id].monthly_amount]
    /\ listing = NoListing
    /\ bot = NoBot

NextTwo ==
    \/ Add
    \/ BudgetUpdate
    \/ GenerateForecasts
    \/ Rollover

SpecTwo == InitTwo /\ [][NextTwo]_vars

(***************************************************************************)
(* Purchases on cards and in cash, edits of their status, and the summary  *)
(* view of the ledger.                                                     *)
(***************************************************************************)
ViewRequests ==
    {Req("simple", "Meal", 3, 0, 0, <<>>, a, "None", 0) :
        a \in {"Cash", "Visa Produbanco", "Amex Produbanco"}}
    \cup {Req("simple", "Coat", 6, 0, 0, <<>>, "Visa Produbanco", "budget_food", 0)}

AddViewed == AddFrom(ViewRequests, PurchaseDates, MaxSteps)

Statuses == {"committed", "pending", "planning", "forecast"}

EditStatus ==
    /\ steps < MaxSteps
    /\ \E id \in Ids, s \in Statuses :
        Call("edit", id, NullReq, 0, [status |-> s],
             process_transaction_update(Store, id, [status |-> s]))

View ==
    /\ ~listing.queried
    /\ \E include_planning \in BOOLEAN :
        listing' = [queried |-> TRUE,
                    rows |-> view_transactions(transactions, TRUE, include_planning),
                    include_planning |-> include_planning]
    /\ UNCHANGED <<transactions, subscriptions, next_id, next_origin,
                   last, prev, prev_subs, steps, calc, ops, max_amount, bot>>

NextView ==
    \/ AddViewed
    \/ EditStatus
    \/ View

SpecView == Init /\ [][NextView]_vars

(***************************************************************************)
(* Conversions there and back: expenses are added and converted, in runs   *)
(* long enough for two expenses and two conversions.                       *)
(***************************************************************************)
MaxConvertSteps == 4

RoundTripRequests ==
    {Req("simple", "Meal", 3, 0, 0, <<>>, "Visa Produbanco", "budget_food", 0),
     Req("simple", "Meal", 3, 0, 0, <<>>, "Cash", "budget_food", 1),
     Req("installment", "Coat", 0, 6, 2, <<>>, "Cash", "budget_food", 0)}

RoundTripDetails ==
    RoundTripRequests
    \cup {Req("installment", "Meal", 0, 3, 2, <<>>, "Visa Produbanco",
               "budget_food", 0),
          Req("simple", "Coat", 6, 0, 0, <<>>, "Cash", "budget_food", 0)}

ConvertAdd == AddFrom(RoundTripRequests, PurchaseDates, MaxConvertSteps)

ConvertBack == ConvertFrom(RoundTripDetails, MaxConvertSteps)

NextConvert ==
    \/ ConvertAdd
    \/ ConvertBack

SpecConvert == Init /\ [][NextConvert]_vars

(***************************************************************************)
(* The payment-date computation on its own: a purchase date and a card's   *)
(* cut-off and payment days are drawn, then the date_payed of a purchase   *)
(* with some grace period is computed as create_single_transaction does.   *)
(***************************************************************************)
MaxGrace == 2

\* Purchase dates: days 5, 20, 28 and the last day, in January, March and
\* December 2025 and in January 2028 (a leap year's).
SimDates ==
    {MkDate(mi, d) : mi \in {0, 2, 11, 36}, d \in {5, 20, 28, 31}}

CardDays == {1, 2, 14, 15, 25, 28, 29, 30, 31}

Card(cut_off_day, payment_day) ==
    [account_id |-> "Card", account_type |-> "credit_card",
     cut_off_day |-> cut_off_day, payment_day |-> payment_day]

InitPay ==
    /\ transactions = {}
    /\ subscriptions = [id \in {"budget_food"} |-> Budget("keep")]
    /\ next_id = 1
    /\ next_origin = 1
    /\ last = NoCall
    /\ prev = {}
    /\ prev_subs = subscriptions
    /\ steps = 0
    /\ ops = {}
    /\ max_amount = [id \in DOMAIN subscriptions |-> subscriptions[id].monthly_amount]
    /\ listing = NoListing
    /\ bot = NoBot
    /\ \E d \in SimDates, c \in CardDays, p \in CardDays :
          calc = [NoCalc EXCEPT !.date = d, !.cut_off_day = c, !.payment_day = p]

Simulate ==
    /\ ~calc.computed
    /\ \E g \in 0..MaxGrace :
          calc' = [calc EXCEPT
                     !.grace_period_months = g,
                     !.computed = TRUE,
                     !.result = create_single_transaction(
                                    Desc("Meal"), 3, "Food", "None",
                                    Card(calc.cut_off_day, calc.payment_day),
                                    calc.date, g, FALSE).date_payed]
    /\ UNCHANGED <<store_vars, bot>>

NextPay == Simulate

SpecPay == InitPay /\ [][NextPay]_vars

(***************************************************************************)
(* The factories on their own: a purchase date and a card's cut-off and    *)
(* payment days are drawn as for the payment-date computation, then one    *)
(* factory builds its rows for the cash account or for that card.  A       *)
(* factory that raises builds no row.                                      *)
(***************************************************************************)
MaxInstallments == 3

FactoryAccounts == {Accounts["Cash"], Card(calc.cut_off_day, calc.payment_day)}

\* What a call of a factory leaves: the rows, or the ValueError of the
\* payment-date computation.
Made(factory, account, grace_period_months, rows) ==
    LET raised == \E j \in 1..Len(rows) : rows[j].date_payed = ValueError
    IN  [date |-> calc.date, cut_off_day |-> calc.cut_off_day,
         payment_day |-> calc.payment_day,
         grace_period_months |-> grace_period_months, computed |-> TRUE,
         factory |-> factory, account_type |-> account.account_type,
         raised |-> raised, result |-> IF raised THEN <<>> ELSE rows]

MakeSingle ==
    /\ ~calc.computed
    /\ \E account \in FactoryAccounts, g \in 0..MaxGrace :
          calc' = Made("single", account, g,
                       <<create_single_transaction(Desc("Meal"), 3, "Food",
                             "None", account, calc.date, g, FALSE)>>)
    /\ UNCHANGED <<store_vars, bot>>

MakeInstallments ==
    /\ ~calc.computed
    /\ \E account \in FactoryAccounts, g \in 0..MaxGrace, n \in 1..MaxInstallments :
          calc' = Made("installment", account, g,
                       create_installment_transactions(Desc("TV"), 6, n,
                           "Home", "None", account, calc.date, g, 1, 0, "G1"))
    /\ UNCHANGED <<store_vars, bot>>

MakeSplit ==
    /\ ~calc.computed
    /\ \E account \in FactoryAccounts :
          calc' = Made("split", account, 0,
                       create_split_transactions(Desc("Market"),
                           <<[amount |-> 2, category |-> "Food", budget |-> "None"],
                             [amount |-> 1, category |-> "Home", budget |-> "None"]>>,
                           account, calc.date, "G1"))
    /\ UNCHANGED <<store_vars, bot>>

\* The forecasts of a subscription that started on the drawn date, over the
\* horizon that begins with the month of that date.
MakeRecurrent ==
    /\ ~calc.computed
    /\ \E account \in FactoryAccounts :
          LET subscription ==
                  [Budget("keep") EXCEPT !.id = "sub_rent", !.name = "Rent",
                                         !.is_budget = FALSE,
                                         !.payment_account_id = account.account_id,
                                         !.start_date = calc.date]
              start_period == StartOfMonth(calc.date)
              end_period == AddMonths(start_period, forecast_horizon_months)
          IN  calc' = Made("recurrent", account, 0,
                           create_recurrent_transactions({}, subscription,
                               account, start_period, end_period, start_period))
    /\ UNCHANGED <<store_vars, bot>>

NextFactory ==
    \/ MakeSingle
    \/ MakeInstallments
    \/ MakeSplit
    \/ MakeRecurrent

SpecFactory == InitPay /\ [][NextFactory]_vars

(***************************************************************************)
(* telegram_bot.py: the chat with one user.  The Application is built      *)
(* without concurrent updates, so the updates of the user (texts, button   *)
(* presses) wait in a queue and each is handled to its end before the      *)
(* next.  The result of llm_parser.parse_transaction_string, the decoded   *)
(* reply of the language model, is an input of the handler; None is        *)
(* NullReq.  A message is [text, shown, parse, reply_markup]: what it says *)
(* (processing, preview, success, error, prompt, deleted), the request a   *)
(* preview shows, the parse that request came from, and whether it carries *)
(* the Confirm and Revise buttons.                                         *)
(***************************************************************************)
MaxUpdates == 4

\* date.today() of the chat.
BotToday == Oct(10)

Texts == {"Spent 3 on lunch", "Actually it was 6"}

\* Replies of the language model: two meals on Cash that differ by their
\* amount, and a meal on an account the store has not.
ParseResults ==
    {Req("simple", "Meal", 3, 0, 0, <<>>, "Cash", "budget_food", 0),
     Req("simple", "Meal", 6, 0, 0, <<>>, "Cash", "None", 0),
     Req("simple", "Meal", 3, 0, 0, <<>>, "Mastercard", "None", 0)}

Message(text, shown, parse, reply_markup) ==
    [text |-> text, shown |-> shown, parse |-> parse,
     reply_markup |-> reply_markup]

\* reply_text: the bot sends a new message.
Reply(B, message) == [B EXCEPT !.messages = Append(@, message)]

\* edit_text / edit_message_text, which leaves no buttons unless given.
EditText(B, message_id, message) ==
    [B EXCEPT !.messages[message_id] = message]

handle_new_expense(B, user_message, request_json) ==
    LET B1 == Reply(B, Message("processing", NullReq, 0, FALSE))
        processing_msg == Len(B1.messages)
    IN  IF request_json = NullReq
        THEN EditText(B1, processing_msg, Message("error", NullReq, 0, FALSE))
        ELSE [EditText(B1, processing_msg,
                       Message("preview", request_json, B.parses + 1, TRUE))
              EXCEPT !.user_data =
                         [pending_transaction |-> request_json,
                          original_message |-> user_message,
                          awaiting_correction |-> FALSE,
                          preview_message_id |-> processing_msg],
                     !.parses = B.parses + 1,
                     !.pending_parse = B.parses + 1]

handle_correction(B, correction_text, request_json) ==
    LET B1 == Reply(B, Message("processing", NullReq, 0, FALSE))
        processing_msg == Len(B1.messages)
    IN  IF request_json = NullReq
        THEN EditText(B1, processing_msg, Message("error", NullReq, 0, FALSE))
        ELSE [Reply(EditText(B1, processing_msg,
                             Message("deleted", NullReq, 0, FALSE)),
                    Message("preview", request_json, B.parses + 1, TRUE))
              EXCEPT !.user_data.pending_transaction = request_json,
                     !.user_data.awaiting_correction = FALSE,
                     !.user_data.preview_message_id = processing_msg + 1,
                     !.parses = B.parses + 1,
                     !.pending_parse = B.parses + 1]

process_new_message(B, user_message, request_json) ==
    IF B.user_data.awaiting_correction
    THEN handle_correction(B, user_message, request_json)
    ELSE handle_new_expense(B, user_message, request_json)

cancel_command(B) ==
    [Reply(B, Message("cancelled", NullReq, 0, FALSE))
     EXCEPT !.user_data = NoUserData, !.pending_parse = 0]

handle_revise(B, message_id) ==
    [Reply([B EXCEPT !.messages[message_id].reply_markup = FALSE],
           Message("prompt", NullReq, 0, FALSE))
     EXCEPT !.user_data.awaiting_correction = TRUE]

\* handle_confirm on the store S for the callback query of a press: the chat
\* it leaves, whether it called process_transaction_request, and the result
\* of that call.  query.shown is the request the pressed message showed.
handle_confirm(B, S, query) ==
    LET pending_tx == B.user_data.pending_transaction
        R == process_transaction_request(S, pending_tx, BotToday)
        message_id == query.message_id
        call == [parse |-> B.pending_parse, message_id |-> message_id,
                 request |-> pending_tx, shown |-> query.shown,
                 raised |-> R.raised]
    IN  IF pending_tx = NullReq
        THEN [bot |-> EditText(B, message_id,
                               Message("error", NullReq, 0, FALSE)),
              called |-> FALSE, R |-> Ok(S)]
        ELSE IF R.raised
        THEN [bot |-> [EditText(B, message_id,
                                Message("error", NullReq, 0, FALSE))
                       EXCEPT !.calls = Append(@, call)],
              called |-> TRUE, R |-> R]
        ELSE [bot |-> [EditText(B, message_id,
                                Message("success", pending_tx, B.pending_parse, FALSE))
                       EXCEPT !.calls = Append(@, call),
                              !.user_data = NoUserData,
                              !.pending_parse = 0],
              called |-> TRUE, R |-> R]

\* main(): the database is initialised and the monthly rollover is run
\* before the first update is polled.
InitBot ==
    \E u \in {"keep", "return"} :
        LET S == run_monthly_rollover(
                     [tx |-> {}, subs |-> [id \in {"budget_food"} |-> Budget(u)],
                      nid |-> 1, ng |-> 1], BotToday)
        IN  /\ transactions = S.tx
            /\ subscriptions = S.subs
            /\ next_id = S.nid
            /\ next_origin = S.ng
            /\ last = NoCall
            /\ prev = S.tx
            /\ prev_subs = S.subs
            /\ steps = 0
            /\ calc = NoCalc
            /\ ops = {}
            /\ max_amount = [id \in DOMAIN S.subs |-> S.subs[id].monthly_amount]
            /\ listing = NoListing
            /\ bot = NoBot

\* The user sends a text.
SendText ==
    /\ bot.sent < MaxUpdates
    /\ \E text \in Texts :
          bot' = [bot EXCEPT !.sent = @ + 1,
                             !.updates = Append(@, [kind |-> "text", data |-> text,
                                                    message_id |-> 0])]
    /\ UNCHANGED <<store_vars, calc>>

\* The user sends /cancel.
SendCancel ==
    /\ bot.sent < MaxUpdates
    /\ bot' = [bot EXCEPT !.sent = @ + 1,
                          !.updates = Append(@, [kind |-> "command", data |-> "cancel",
                                                 message_id |-> 0])]
    /\ UNCHANGED <<store_vars, calc>>

\* The user presses a button of a message that carries the buttons.
Press ==
    /\ bot.sent < MaxUpdates
    /\ \E message_id \in 1..Len(bot.messages), data \in {"confirm", "revise"} :
          /\ bot.messages[message_id].reply_markup
          /\ bot' = [bot EXCEPT !.sent = @ + 1,
                                !.updates = Append(@, [kind |-> "callback", data |-> data,
                                                       message_id |-> message_id,
                                                       shown |-> bot.messages[message_id].shown])]
    /\ UNCHANGED <<store_vars, calc>>

\* MessageHandler(filters.TEXT & ~filters.COMMAND, process_new_message).
OnText ==
    /\ bot.updates # <<>>
    /\ Head(bot.updates).kind = "text"
    /\ \E request_json \in ParseResults \cup {NullReq} :
          bot' = process_new_message([bot EXCEPT !.updates = Tail(@)],
                                     Head(bot.updates).data, request_json)
    /\ UNCHANGED <<store_vars, calc>>

\* CommandHandler("cancel", cancel_command).
OnCancel ==
    /\ bot.updates # <<>>
    /\ Head(bot.updates).kind = "command"
    /\ bot' = cancel_command([bot EXCEPT !.updates = Tail(@)])
    /\ UNCHANGED <<store_vars, calc>>

\* CallbackQueryHandler(button_callback_handler).
button_callback_handler ==
    /\ bot.updates # <<>>
    /\ Head(bot.updates).kind = "callback"
    /\ LET query == Head(bot.updates)
           B == [bot EXCEPT !.updates = Tail(@)]
           confirmed == handle_confirm(B, Store, query)
       IN  IF query.data = "confirm" /\ confirmed.called
           THEN /\ Record("add", 0, B.user_data.pending_transaction, BotToday,
                          NoUpdates, confirmed.R)
                /\ bot' = confirmed.bot
                /\ UNCHANGED calc
           ELSE /\ bot' = IF query.data = "confirm" THEN confirmed.bot
                          ELSE handle_revise(B, query.message_id)
                /\ UNCHANGED <<store_vars, calc>>

NextBot ==
    \/ SendText
    \/ SendCancel
    \/ Press
    \/ OnText
    \/ OnCancel
    \/ button_callback_handler

SpecBot == InitBot /\ [][NextBot]_vars

(***************************************************************************)
(* Properties.  An allocation row is referred to by its budget (origin_id) *)
(* and the month of its date_created.                                      *)
(***************************************************************************)
BudgetIds == {id \in DOMAIN subscriptions : subscriptions[id].is_budget}

Months == {MonthOf(r.date_created) : r \in transactions}

\* S of the budget recalculator: the spend linked to b and created in month mi.
SpendCreatedIn(T, b, mi) ==
    SumAmount({[id |-> r.id, amount |-> Abs(r.amount)] :
                 r \in {x \in T : /\ x.budget = b
                                   /\ x.origin_id # b
                                   /\ x.status # "pending"
                                   /\ MonthOf(x.date_created) = mi}})

\* Rows with origin_id = b created in month mi.
RowsOf(T, b, mi) == {r \in T : r.origin_id = b /\ MonthOf(r.date_created) = mi}

Formula(T, subs, b, mi) ==
    (0 - subs[b].monthly_amount)
        + Min2(SpendCreatedIn(T, b, mi), subs[b].monthly_amount)

\* The allocation rows of a table T: the rows a budget generated, its Budget
\* Release inflows aside.
AllocationsIn(T) ==
    {r \in T : r.origin_id \in BudgetIds /\ r.category # "Budget Release"}

AllAllocations == AllocationsIn(transactions)

ControllerOps ==
    {"add", "edit", "edit_subscription_row", "delete", "convert",
     "date_change", "budget_update"}

\* C1: after controller operations only (add, edit, delete, convert,
\* date-change, budget update), every allocation row of a budget b in a month
\* m has the amount -A + min(S, A), A the budget's monthly_amount and S the
\* spend linked to b that was created in m and is not pending.
C1_AllocationFormula ==
    ops \subseteq ControllerOps =>
        \A r \in AllAllocations :
            r.amount = Formula(transactions, subscriptions, r.origin_id,
                               MonthOf(r.date_created))

C3_OneRowPerMonth ==
    ops \subseteq {"add", "rollover", "generate_forecasts", "budget_update",
                   "reconcile"} =>
        \A b \in BudgetIds : \A mi \in Months :
            Cardinality(RowsOf(transactions, b, mi)) <= 1

\* Every allocation row of T is in U with the amount it has in T.
AllocationsKept(T, U) ==
    \A a \in AllocationsIn(T) : \E c \in U : c.id = a.id /\ c.amount = a.amount

\* The expense rows the call just made has inserted.
Created ==
    {r \in transactions : /\ r.id \notin {q.id : q \in prev}
                          /\ r.origin_id \notin DOMAIN subscriptions}

\* C4: process_transaction_request of an expense linked to a budget, then
\* process_transaction_deletion of the row it created, leaves every
\* allocation row that existed before the add at its amount of before the add.
C4_AddThenDelete ==
    [][(/\ last.op = "add" /\ ~last.raised
        /\ Cardinality(Created) = 1
        /\ \A r \in Created : r.budget \in BudgetIds
        /\ last'.op = "delete"
        /\ \A r \in Created : last'.id = r.id)
       => AllocationsKept(prev, transactions')]_vars

\* C5: process_transaction_update(tx, {amount: a}) on a budget-linked tx of
\* amount old_a, then process_transaction_update(tx, {amount: old_a}), leaves
\* every budget allocation at its amount of before the first edit.
C5_EditThenRestore ==
    [][(/\ last.op = "edit" /\ ~last.raised
        /\ DOMAIN last.updates = {"amount"}
        /\ \E t \in prev : /\ t.id = last.id
                           /\ t.budget \in BudgetIds
                           /\ t.origin_id \notin DOMAIN subscriptions
                           /\ last'.updates = [amount |-> t.amount]
        /\ last'.op = "edit" /\ last'.id = last.id)
       => AllocationsKept(prev, transactions')]_vars

\* C6: run_monthly_rollover(today) run a second time with the same today
\* leaves the table as the first run left it: same rows, amounts, statuses.
C6_RolloverTwice ==
    [][(/\ last.op = "rollover"
        /\ last'.op = "rollover"
        /\ last'.date = last.date)
       => transactions' = transactions]_vars

\* C8: a controller call that fails (missing account or transaction, invalid
\* request, unknown target type or account of a conversion) leaves the store
\* exactly as it was before the call.
C8_FailureLeavesStore ==
    [][last'.raised =>
          /\ transactions' = transactions
          /\ subscriptions' = subscriptions]_vars

\* C9: process_transaction_conversion and process_transaction_date_update on
\* a transaction whose origin_id is a subscription id raise and leave every
\* row and every subscription unchanged.
C9_SubscriptionRowsRefused ==
    [][(/\ last'.op \in {"convert", "date_change"}
        /\ \E r \in transactions :
              r.id = last'.id /\ r.origin_id \in DOMAIN subscriptions)
       => /\ last'.raised
          /\ transactions' = transactions
          /\ subscriptions' = subscriptions]_vars

\* C9 witness: a conversion with a valid request has just been refused on a
\* row a subscription generated, and the table is as it was.
C9_Witness ==
    /\ last.op = "convert" /\ last.raised
    /\ last.req \in ConversionDetails \ BadRequests
    /\ \E r \in transactions :
          r.id = last.id /\ r.origin_id \in DOMAIN subscriptions
    /\ transactions = prev
    /\ transactions # {}

\* The rows of prev that the call just made has deleted.
Removed == {r \in prev : r.id \notin Ids}

\* A row without its id and origin_id (fresh at every creation) and without
\* its date_payed.
Params(r) ==
    [date_created |-> r.date_created, description |-> r.description,
     account |-> r.account, amount |-> r.amount, category |-> r.category,
     budget |-> r.budget, status |-> r.status]

WithDatePayed(r) == <<Params(r), r.date_payed>>

\* The expense rows of table U that table T has not.
NewIn(T, U) ==
    {r \in U : /\ r.id \notin {q.id : q \in T}
               /\ r.origin_id \notin DOMAIN subscriptions}

\* C7: a conversion to another kind, then a conversion back that recreates
\* the rows of the original group (same descriptions, amounts, accounts,
\* budgets, purchase date), leaves every budget allocation at its amount of
\* before the first conversion, and the group with its date_payed of before.
C7_ConvertAndBack ==
    [][(/\ last.op = "convert" /\ ~last.raised
        /\ last'.op = "convert" /\ ~last'.raised
        /\ last'.req.type # last.req.type
        /\ \E r \in Created : r.id = last'.id
        /\ Removed # {}
        /\ Cardinality(NewIn(transactions, transactions')) = Cardinality(Removed)
        /\ {Params(r) : r \in NewIn(transactions, transactions')}
              = {Params(r) : r \in Removed})
       => /\ AllocationsKept(prev, transactions')
          /\ {WithDatePayed(r) : r \in NewIn(transactions, transactions')}
                = {WithDatePayed(r) : r \in Removed}]_vars

\* C10: the payment-date computation never raises and returns a date, on the
\* payment day or, where the month has no such day, on the month's last day.
C10_PaymentDateTotal ==
    calc.computed =>
        /\ IsDate(calc.result)
        /\ DayOf(calc.result)
              = Min2(calc.payment_day, DaysIn(MonthOf(calc.result)))

\* The date handed to the payment-date computation in a run of calc: the
\* purchase date moved by the grace period.
EffectiveDate == AddMonths(calc.date, calc.grace_period_months)

\* The number of months between the purchase and its payment that the billing
\* cycle of a card with cut-off day c and payment day p gives a purchase of
\* day-of-month day.
CycleMonths(day, c, p) ==
    IF p > c THEN (IF day < c THEN 0 ELSE 1)
    ELSE (IF day <= c THEN 1 ELSE 2)

\* C11: with p > c the payment date is day p of the purchase month when the
\* purchase day is before c and day p of the next month otherwise (a purchase
\* on the cut-off day rolls over); with p <= c it is day p of the next month
\* when the purchase day is at most c and day p two months on otherwise.
C11_PaymentDateCases ==
    calc.computed =>
        calc.result =
            MkDate(MonthOf(EffectiveDate)
                     + CycleMonths(DayOf(EffectiveDate), calc.cut_off_day,
                                   calc.payment_day),
                   calc.payment_day)

\* C12: after run_monthly_rollover(today) no row in status forecast has a
\* date_payed on or before the last day of today's month, and every row that
\* was a forecast with a later date_payed before the call is still a forecast.
C12_RolloverCommitsMonth ==
    last.op = "rollover" =>
        /\ \A r \in transactions :
              r.status = "forecast" => r.date_payed > EndOfMonth(last.date)
        /\ \A r \in prev :
              (r.status = "forecast" /\ r.date_payed > EndOfMonth(last.date))
                  => r \in transactions

\* The calls that no user makes on one transaction: the scheduler's and the
\* change of a budget's amount.
SchedulerOps == {"rollover", "generate_forecasts", "reconcile", "budget_update"}

\* Row r of the store before the call is in the store after it, still committed.
StaysCommitted(r) ==
    \E q \in transactions : q.id = r.id /\ q.status = "committed"

\* The rows the call process_budget_update(b, _, effective_date) recorded in
\* last wipes: those generated for b and created in the effective month or later.
Wiped(r) ==
    /\ last.op = "budget_update"
    /\ r.origin_id = "budget_food"
    /\ r.date_created >= StartOfMonth(last.date)

HorizonMonths(sub, today) ==
    {mi \in MonthOf(today) .. MonthOf(today) + forecast_horizon_months :
        RecurrenceDate(mi, DayOf(sub.start_date))
            <= AddMonths(today, forecast_horizon_months)}

ForecastRows(T) == {r \in T : r.status = "forecast"}

\* C14: in a run of adds and rollovers, after run_monthly_rollover(today)
\* every subscription has exactly one row for every month of the horizon, and
\* the number of forecast rows equals the horizon.
C14_HorizonKept ==
    (last.op = "rollover" /\ ops \subseteq {"add", "rollover"}) =>
        /\ \A id \in DOMAIN subscriptions : \A mi \in HorizonMonths(subscriptions[id], last.date) :
              Cardinality(RowsOf(transactions, id, mi)) = 1
        /\ Cardinality(ForecastRows(transactions)) = forecast_horizon_months

\* C14, first half alone: one row per subscription and month of the horizon.
C14_NoGap ==
    (last.op = "rollover" /\ ops \subseteq {"add", "rollover"}) =>
        \A id \in DOMAIN subscriptions : \A mi \in HorizonMonths(subscriptions[id], last.date) :
            RowsOf(transactions, id, mi) # {}

\* C15: process_transaction_deletion called on a row whose origin_id is a
\* budget's id leaves that row in the store.
C15_AllocationDeletionRefused ==
    last.op = "delete" =>
        \A r \in prev :
            (r.id = last.id /\ r.origin_id \in BudgetIds) => r.id \in Ids

\* Row t of a listing without its running balance.
Stored(t) == [f \in DOMAIN t \ {"running_balance"} |-> t[f]]

\* The rows of listing L up to and including position i that are not pending.
CountedUpTo(L, i) == {L[j] : j \in {k \in 1..i : L[k].status # "pending"}}

PendingAdded ==
    /\ last.op = "add"
    /\ ~last.raised
    /\ "is_pending" \in DOMAIN last.req
    /\ last.req.is_pending

\* C17: process_transaction_request with is_pending = true stores the row in
\* status pending and leaves the rows of the linked budget's allocations as
\* they were.
C17_PendingLeavesBudget ==
    PendingAdded =>
        /\ \A r \in transactions :
              r.id \notin {q.id : q \in prev} /\ r.origin_id # last.req.budget
                  => r.status = "pending"
        /\ {r \in transactions : r.origin_id = last.req.budget}
              = {r \in prev : r.origin_id = last.req.budget}

\* The rows of prev that the last call, a status edit to committed, has
\* cleared: expenses linked to a budget that were pending before the call.
Cleared ==
    {r \in prev : /\ last.op = "edit"
                  /\ ~last.raised
                  /\ "status" \in DOMAIN last.updates
                  /\ last.updates.status = "committed"
                  /\ r.id = last.id
                  /\ r.status = "pending"
                  /\ r.budget \in BudgetIds
                  /\ r.origin_id \notin DOMAIN subscriptions}

\* -A + min(S, A) for budget b, S being the spend of the rows of T that are
\* linked to b, not pending and created in month mi, and of the row e.
FormulaCounting(T, b, mi, e) ==
    (0 - subscriptions[b].monthly_amount)
        + Min2(SumAmount({[id |-> r.id, amount |-> Abs(r.amount)] :
                            r \in {x \in T : /\ x.budget = b
                                              /\ x.origin_id # b
                                              /\ \/ x.id = e.id
                                                 \/ /\ x.status # "pending"
                                                    /\ MonthOf(x.date_created) = mi}}),
               subscriptions[b].monthly_amount)

\* C18: after a status edit that clears a pending expense linked to a budget,
\* the row is committed and the allocation of its month (the month of its
\* date_payed, the one the controller recalculates) is -A + min(S, A) with the
\* expense counted in S; before the edit it was that formula without the
\* expense.
C18_ClearCountsExpense ==
    \A e \in Cleared :
        /\ \E q \in transactions : q.id = e.id /\ q.status = "committed"
        /\ \A a \in get_budget_allocation_for_month(transactions, e.budget, e.date_payed) :
              a.amount = FormulaCounting(transactions, e.budget,
                                         MonthOf(e.date_payed), e)
        /\ \A a \in get_budget_allocation_for_month(prev, e.budget, e.date_payed) :
              a.amount = Formula(prev, subscriptions, e.budget,
                                 MonthOf(e.date_payed))

\* C18 for the expenses created in the month of their date_payed.
C18_ClearSameMonth ==
    \A e \in Cleared :
        SameMonth(e.date_created, e.date_payed) =>
            /\ \E q \in transactions : q.id = e.id /\ q.status = "committed"
            /\ \A a \in get_budget_allocation_for_month(transactions, e.budget, e.date_payed) :
                  a.amount = FormulaCounting(transactions, e.budget,
                                             MonthOf(e.date_payed), e)
            /\ \A a \in get_budget_allocation_for_month(prev, e.budget, e.date_payed) :
                  a.amount = Formula(prev, subscriptions, e.budget,
                                     MonthOf(e.date_payed))

\* The months after the effective month of the budget update recorded in last
\* that its forecast horizon reaches.
LaterMonths ==
    {mi \in MonthOf(last.date) + 1 .. MonthOf(last.date) + forecast_horizon_months :
        MkDate(mi, 1) <= AddMonths(last.date, forecast_horizon_months)}

\* For every month of the set, budget b has an allocation and its amount is
\* min(0, -A + spent(month)), A the amount the update sets.
AllocationsAre(b, months, spent(_)) ==
    \A mi \in months :
        /\ get_budget_allocation_for_month(transactions, b, MkDate(mi, 1)) # {}
        /\ \A a \in get_budget_allocation_for_month(transactions, b, MkDate(mi, 1)) :
              a.amount = Min2(0, (0 - last.updates.monthly_amount) + spent(mi))

SpentCreatedIn(mi) == get_total_spent_for_budget_in_month(transactions, "budget_food", MkDate(mi, 1))

CommittedPaidIn(mi) == get_total_committed_for_budget_in_month(transactions, "budget_food", MkDate(mi, 1))

\* Every allocation of a month before the effective month is in the store
\* with the amount it had before the update.
EarlierKept ==
    \A a \in AllocationsIn(prev) :
        MonthOf(a.date_created) < MonthOf(last.date)
            => \E c \in transactions : c.id = a.id /\ c.amount = a.amount

DebitOf(b, mi) ==
    SumAmount({[id |-> r.id, amount |-> Abs(r.amount)] :
                 r \in {x \in Created : /\ x.budget = b
                                         /\ MonthOf(x.date_payed) = mi}})

\* The months from the first purchase date of the model to the latest payment
\* of a purchase made in the following month.
LedgerMonths == MonthOf(Oct(1)) .. MonthOf(Oct(1)) + 4

\* The amount of b's allocation of month mi in table T; the budget's full
\* amount where T has no allocation for the month.
AllocatedIn(T, b, mi) ==
    IF get_budget_allocation_for_month(T, b, MkDate(mi, 1)) = {}
    THEN 0 - subscriptions[b].monthly_amount
    ELSE FirstRow(get_budget_allocation_for_month(T, b, MkDate(mi, 1))).amount

\* C20: process_transaction_request debits, for each expense row linked to a
\* budget, the allocation of the month of the row's date_payed (down to zero
\* at most), and leaves the allocation of every month in which none of the
\* rows is paid, the purchase month included, as it was.
C20_DebitsPaymentMonth ==
    (last.op = "add" /\ ~last.raised) =>
        \A b \in BudgetIds : \A mi \in LedgerMonths :
            IF DebitOf(b, mi) = 0
            THEN get_budget_allocation_for_month(transactions, b, MkDate(mi, 1))
                     = get_budget_allocation_for_month(prev, b, MkDate(mi, 1))
            ELSE /\ get_budget_allocation_for_month(transactions, b, MkDate(mi, 1)) # {}
                 /\ AllocatedIn(transactions, b, mi)
                        = Min2(0, AllocatedIn(prev, b, mi) + DebitOf(b, mi))

\* An add of an expense paid in a month after the purchase, the purchase
\* month having an allocation that still has budget left, and the payment
\* month's allocation being debited.
C20_Witness ==
    /\ last.op = "add" /\ ~last.raised
    /\ \E e \in Created :
          /\ e.budget \in BudgetIds
          /\ MonthOf(e.date_payed) > MonthOf(e.date_created)
          /\ DebitOf(e.budget, MonthOf(e.date_created)) = 0
          /\ \E a \in get_budget_allocation_for_month(prev, e.budget, e.date_created) :
                a.amount < 0
          /\ AllocatedIn(transactions, e.budget, MonthOf(e.date_payed))
                 > AllocatedIn(prev, e.budget, MonthOf(e.date_payed))

\* The sum of |amount| over the rows of R linked to budget b and paid in mi.
DebitIn(R, b, mi) ==
    SumAmount({[id |-> r.id, amount |-> Abs(r.amount)] :
                 r \in {x \in R : x.budget = b /\ MonthOf(x.date_payed) = mi}})

\* The last call added a simple transaction or an installment group, and the
\* next call moves it to another date.
AddedThenMoved ==
    /\ last.op = "add" /\ ~last.raised
    /\ last.req.type \in {"simple", "installment"}
    /\ last'.op = "date_change" /\ ~last'.raised
    /\ last'.id \in {r.id : r \in Created}

\* C21: process_transaction_date_update on a simple transaction or an
\* installment group just added replaces its rows by as many rows created on
\* new_date, paid on the dates simulated from new_date month by month; every
\* allocation is then what it was before the group was added, debited (down
\* to zero at most) by the rows the group now pays in its month.
C21_DateUpdate ==
    [][AddedThenMoved =>
          LET Moved == {r \in transactions' : r.id \notin Ids /\ r.origin_id \notin DOMAIN subscriptions}
              account == get_account_by_name(last.req.account)
          IN  /\ \A r \in Created : r.id \notin {q.id : q \in transactions'}
              /\ Cardinality(Moved) = Cardinality(Created)
              /\ \A r \in Moved : r.date_created = last'.date
              /\ {r.date_payed : r \in Moved}
                    = {PaymentDate(account, AddMonths(last'.date, i)) :
                          i \in 0 .. Cardinality(Created) - 1}
              /\ \A b \in BudgetIds : \A mi \in LedgerMonths :
                    AllocatedIn(transactions', b, mi)
                        = Min2(0, AllocatedIn(prev, b, mi) + DebitIn(Moved, b, mi))]_vars

\* C21, the rows alone: the group's rows are replaced by as many rows created
\* on new_date and paid on the dates simulated from it.
C21_RowsMoved ==
    [][AddedThenMoved =>
          LET Moved == {r \in transactions' : r.id \notin Ids /\ r.origin_id \notin DOMAIN subscriptions}
              account == get_account_by_name(last.req.account)
          IN  /\ \A r \in Created : r.id \notin {q.id : q \in transactions'}
              /\ Cardinality(Moved) = Cardinality(Created)
              /\ \A r \in Moved : r.date_created = last'.date
              /\ {r.date_payed : r \in Moved}
                    = {PaymentDate(account, AddMonths(last'.date, i)) :
                          i \in 0 .. Cardinality(Created) - 1}]_vars

\* The expense that the last call, a process_transaction_deletion, deleted,
\* where it was linked to a budget whose allocation of month mi was at 0.
DeletedFromOverspent(e, mi) ==
    /\ last.op = "delete" /\ ~last.raised
    /\ e \in prev /\ e.id = last.id
    /\ e.budget \in BudgetIds
    /\ e.origin_id \notin DOMAIN subscriptions
    /\ \E a \in get_budget_allocation_for_month(prev, e.budget, MkDate(mi, 1)) :
          a.amount = 0

\* C22: after process_transaction_deletion of an expense of an overspent
\* budget-month (the month the expense was created in, allocation 0), the
\* allocation is -A + min(S', A), S' the spend that remains in the month.
C22_DeleteUncaps ==
    \A e \in prev :
        DeletedFromOverspent(e, MonthOf(e.date_created)) =>
            \A a \in get_budget_allocation_for_month(transactions, e.budget, e.date_created) :
                a.amount = Formula(transactions, subscriptions, e.budget,
                                   MonthOf(e.date_created))

\* C22 for the month the expense is paid in, S' being the spend that is still
\* paid in that month.
C22_DeleteUncapsPaid ==
    \A e \in prev :
        DeletedFromOverspent(e, MonthOf(e.date_payed)) =>
            \A a \in get_budget_allocation_for_month(transactions, e.budget, e.date_payed) :
                a.amount = (0 - subscriptions[e.budget].monthly_amount)
                    + Min2(subscriptions[e.budget].monthly_amount,
                           DebitIn({r \in transactions : r.origin_id # e.budget /\ r.status # "pending"},
                                   e.budget, MonthOf(e.date_payed)))

\* C22 where every expense of the budget is paid in the month it was created.
C22_DeleteUncapsSameMonth ==
    (\A r \in prev : r.budget \in BudgetIds => SameMonth(r.date_created, r.date_payed)) =>
        C22_DeleteUncaps

\* The budgets that run_monthly_budget_reconciliation(last.date) finds active.
ActiveBudgets ==
    {b \in get_all_active_subscriptions(prev_subs, last.date, last.date) :
        prev_subs[b].is_budget}

\* The budgets among them that have underspent: policy return, and an
\* allocation for the month below zero before the call.
Underspent ==
    {b \in ActiveBudgets :
        /\ prev_subs[b].underspend_behavior = "return"
        /\ \E a \in get_budget_allocation_for_month(prev, b, last.date) :
              a.amount < 0}

\* The rows the last call inserted.
Inserted == {r \in transactions : r.id \notin {q.id : q \in prev}}

\* C23: run_monthly_budget_reconciliation(month) adds, for each active budget
\* of policy return whose allocation for the month is below zero, exactly one
\* committed Budget Release inflow of |allocation| on the budget's account,
\* and sets that allocation to 0; it adds and changes no other row, so for
\* budgets of policy keep or with an allocation at 0 nothing changes.
C23_Reconciliation ==
    last.op = "reconcile" =>
        /\ \A b \in Underspent :
              \A a \in get_budget_allocation_for_month(prev, b, last.date) :
                  /\ [a EXCEPT !.amount = 0] \in transactions
                  /\ Cardinality({r \in Inserted : r.origin_id = b}) = 1
                  /\ \A r \in Inserted :
                        r.origin_id = b =>
                            /\ r.amount = 0 - a.amount
                            /\ r.status = "committed"
                            /\ r.category = "Budget Release"
                            /\ r.account = prev_subs[b].payment_account_id
        /\ \A r \in Inserted : r.origin_id \in Underspent
        /\ \A r \in prev :
              \/ r \in transactions
              \/ \E b \in Underspent :
                    r \in get_budget_allocation_for_month(prev, b, last.date)
        /\ Cardinality(transactions) = Cardinality(prev) + Cardinality(Underspent)

\* A reconciliation that released an underspent budget while the store held
\* other rows.
C23_Witness ==
    /\ last.op = "reconcile"
    /\ Underspent # {}
    /\ \E r \in Inserted : r.amount > 0 /\ r.amount < prev_subs[r.origin_id].monthly_amount
    /\ \E r \in prev : r.origin_id \notin DOMAIN prev_subs

\* A reconciliation of a budget of policy keep whose allocation is below zero.
C23_WitnessKeep ==
    /\ last.op = "reconcile"
    /\ \E b \in ActiveBudgets :
          /\ prev_subs[b].underspend_behavior = "keep"
          /\ \E a \in get_budget_allocation_for_month(prev, b, last.date) : a.amount < 0

\* Row r is dated on the recurrence day of the subscription that generated
\* it: the day of start_date, or the last day of the month when the month
\* has no such day.
OnRecurrenceDay(r) ==
    r.date_created = MkDate(MonthOf(r.date_created),
                            Min2(DayOf(subscriptions[r.origin_id].start_date),
                                 DaysIn(MonthOf(r.date_created))))

\* The rows the last call inserted for a subscription.
Generated == {r \in Inserted : r.origin_id \in DOMAIN subscriptions}

\* C24 (as stated): every row whose origin_id is a subscription id is created
\* on the day of the subscription's start_date, or on the last day of the
\* month when the month has no such day.
C24_RecurrenceDay ==
    \A r \in transactions :
        r.origin_id \in DOMAIN subscriptions => OnRecurrenceDay(r)

\* C24: the rows the scheduler generates for a subscription (forecast
\* generation, rollover, budget update) are created on the day of its
\* start_date, or the last day of the month when the month has no such day;
\* an allocation that process_transaction_request creates is dated the first
\* day of its month, and a Budget Release row the date the reconciliation was
\* run for.
C24_GeneratedDays ==
    /\ last.op \in {"generate_forecasts", "rollover", "budget_update"}
          => \A r \in Generated : OnRecurrenceDay(r)
    /\ last.op = "add"
          => \A r \in Generated : DayOf(r.date_created) = 1
    /\ last.op = "reconcile"
          => \A r \in Generated : r.date_created = last.date

\* A scheduler run that generated a row on the last day of a month shorter
\* than the start day, for a budget that does not start on a first.
C24_Witness ==
    /\ last.op \in {"generate_forecasts", "rollover", "budget_update"}
    /\ \E r \in Generated :
          /\ DayOf(subscriptions[r.origin_id].start_date) > DayOf(r.date_created)
          /\ DayOf(r.date_created) = DaysIn(MonthOf(r.date_created))

(***************************************************************************)
(* C25: when an installment plan linked to a budget that has an end_date   *)
(* has been added by process_transaction_request, no row of that budget    *)
(* that the call inserted (an installment, or an allocation created on the *)
(* fly) lies in a month later than the month of the end_date.              *)
(***************************************************************************)
EndedPlanAdded(b) ==
    /\ last.op = "add"
    /\ ~last.raised
    /\ last.req.type = "installment"
    /\ last.req.budget = b
    /\ subscriptions[b].end_date # NoDate

C25_StopsAtEndDate ==
    \A b \in BudgetIds :
        EndedPlanAdded(b) =>
            \A r \in Inserted :
                r.budget = b =>
                    /\ MonthOf(r.date_payed) <= MonthOf(subscriptions[b].end_date)
                    /\ MonthOf(r.date_created) <= MonthOf(subscriptions[b].end_date)

(***************************************************************************)
(* C26: when process_transaction_request has added an installment request  *)
(* with installments = N, start_from_installment = s and                   *)
(* total_installments = K, the rows of the new group are numbered          *)
(* s .. min(s + N - 1, K), one row for each number, each described (n/K),  *)
(* each of amount -round(total_amount / K, 2), with one origin_id and one  *)
(* date_created.                                                           *)
(***************************************************************************)
PartialAdded ==
    /\ last.op = "add"
    /\ ~last.raised
    /\ last.req.type = "installment"
    /\ "start_from_installment" \in DOMAIN last.req

GroupAdded == {r \in Inserted : r.origin_id \notin DOMAIN subscriptions}

C26_PartialPlan ==
    PartialAdded =>
        LET N == last.req.installments
            s == last.req.start_from_installment
            K == last.req.total_installments
            numbers == s .. Min2(s + N - 1, K)
        IN  /\ {r.description.n : r \in GroupAdded} = numbers
            /\ Cardinality(GroupAdded) = Cardinality(numbers)
            /\ \A r \in GroupAdded :
                  /\ r.description.k = K
                  /\ r.amount = 0 - RoundDiv(last.req.total_amount, K)
                  /\ r.date_created = last.date
            /\ Cardinality({r.origin_id : r \in GroupAdded}) <= 1

(***************************************************************************)
(* C27: generate_forecasts called a second time with the same from_date    *)
(* and horizon, the store unchanged in between, inserts no row; the rows a *)
(* call inserts for a subscription lie in months strictly after that       *)
(* subscription's last forecast row of before the call; and a call never   *)
(* inserts a row in a month where the subscription already had a row.      *)
(***************************************************************************)
GeneratedBy(sub_id) == {r \in Inserted : r.origin_id = sub_id}

RowsBefore(sub_id) == {q \in prev : q.origin_id = sub_id}

\* The second of two consecutive calls with the same from_date changes nothing.
C27_SecondCallInsertsNothing ==
    [][(/\ last.op = "generate_forecasts"
        /\ last'.op = "generate_forecasts"
        /\ last'.date = last.date)
       => transactions' = transactions]_vars

\* New rows lie after the last forecast row of before the call.
C27_AfterLastForecast ==
    last.op = "generate_forecasts" =>
        \A id \in DOMAIN subscriptions :
            \A r \in GeneratedBy(id), q \in ForecastRows(RowsBefore(id)) :
                MonthOf(r.date_created) > MonthOf(q.date_created)

\* No new row in a month that had a row of the subscription. The rows that
\* run_monthly_rollover inserts are those of its call of generate_forecasts,
\* and the commit before that call moves no row to another month.
C27_NoMonthTwice ==
    last.op \in {"generate_forecasts", "rollover"} =>
        \A id \in DOMAIN subscriptions :
            \A r \in GeneratedBy(id), q \in RowsBefore(id) :
                MonthOf(r.date_created) # MonthOf(q.date_created)

C27_GenerateTwice ==
    [][/\ (/\ last.op = "generate_forecasts"
           /\ last'.op = "generate_forecasts"
           /\ last'.date = last.date)
          => transactions' = transactions
       /\ C27_AfterLastForecast'
       /\ C27_NoMonthTwice']_vars

(***************************************************************************)
(* C28: an allocation that generate_forecasts creates for budget b (called *)
(* directly, by the rollover or by a budget update) has amount             *)
(* min(0, -A + C) when the committed expenses linked to b that are paid in *)
(* the allocation's month total C > 0, and -A when there are none; A is    *)
(* the budget's monthly_amount.                                            *)
(***************************************************************************)
GenerateCalls == {"generate_forecasts", "rollover", "budget_update"}

\* The committed expenses linked to budget b that are paid in month mi.
CommittedExpenses(b, mi) ==
    {r \in transactions : /\ r.budget = b
                          /\ r.origin_id # b
                          /\ r.status = "committed"
                          /\ MonthOf(r.date_payed) = mi}

CommittedTotal(b, mi) ==
    SumAmount({[id |-> r.id, amount |-> Abs(r.amount)] : r \in CommittedExpenses(b, mi)})

C28_SeededAllocation ==
    last.op \in GenerateCalls =>
        \A b \in BudgetIds :
            \A r \in GeneratedBy(b) :
                r.amount =
                    IF CommittedTotal(b, MonthOf(r.date_created)) > 0
                    THEN Min2(0, CommittedTotal(b, MonthOf(r.date_created))
                                   - subscriptions[b].monthly_amount)
                    ELSE 0 - subscriptions[b].monthly_amount

\* One call generated an allocation for a month whose committed expenses
\* exceed the budget, one for a month where they stay below it and one for a
\* month without any.
C28_Witness ==
    /\ last.op \in GenerateCalls
    /\ \E b \in BudgetIds :
        /\ \E r \in GeneratedBy(b) :
              CommittedTotal(b, MonthOf(r.date_created)) > subscriptions[b].monthly_amount
        /\ \E r \in GeneratedBy(b) :
              /\ CommittedTotal(b, MonthOf(r.date_created)) > 0
              /\ CommittedTotal(b, MonthOf(r.date_created)) < subscriptions[b].monthly_amount
        /\ \E r \in GeneratedBy(b) :
              CommittedTotal(b, MonthOf(r.date_created)) = 0

(***************************************************************************)
(* C29: when process_transaction_request has added rows linked to budget b *)
(* that are paid in a month for which b had no allocation, it has inserted *)
(* exactly one allocation for that month: status forecast, origin_id and   *)
(* budget b, date_created the first day of the month, and amount           *)
(* -A + min(expense, A), A the budget's monthly_amount.  For a month that  *)
(* had an allocation, and for a month in which no new row is paid, it has  *)
(* inserted none.                                                          *)
(***************************************************************************)
\* The rows of subscription b that the last call inserted in month mi.
AllocationsCreated(b, mi) ==
    {r \in Inserted : r.origin_id = b /\ MonthOf(r.date_created) = mi}

C29_AllocationOnTheFly ==
    (last.op = "add" /\ ~last.raised) =>
        \A b \in BudgetIds : \A mi \in LedgerMonths :
            IF DebitOf(b, mi) > 0 /\ AllocationRows(prev, b, MkDate(mi, 1)) = {}
            THEN /\ Cardinality(AllocationsCreated(b, mi)) = 1
                 /\ \A a \in AllocationsCreated(b, mi) :
                       /\ a.status = "forecast"
                       /\ a.budget = b
                       /\ a.date_created = MkDate(mi, 1)
                       /\ a.amount = Min2(DebitOf(b, mi), subscriptions[b].monthly_amount)
                                        - subscriptions[b].monthly_amount
            ELSE AllocationsCreated(b, mi) = {}

\* One add that is paid in a month without an allocation, where it spends less
\* than the budget, and in a month that had one.
C29_Witness ==
    /\ last.op = "add" /\ ~last.raised
    /\ \E b \in BudgetIds :
        /\ \E mi \in LedgerMonths :
              /\ DebitOf(b, mi) > 0
              /\ DebitOf(b, mi) < subscriptions[b].monthly_amount
              /\ AllocationRows(prev, b, MkDate(mi, 1)) = {}
        /\ \E mi \in LedgerMonths :
              /\ DebitOf(b, mi) > 0
              /\ AllocationRows(prev, b, MkDate(mi, 1)) # {}

(***************************************************************************)
(* C30: right after process_transaction_request has created a group, the   *)
(* kind inferred for each of its rows is installment when the request was  *)
(* an installment request, whatever its number of installments, and split  *)
(* when it was a split request; a row without origin_id is simple.         *)
(***************************************************************************)
InferredKind(r) == _get_transaction_group_info(Store, r).type

C30_KindOfRequest ==
    (last.op = "add" /\ ~last.raised) =>
        \A r \in Created :
            InferredKind(r) =
                IF r.origin_id = "None" THEN "simple" ELSE last.req.type

\* The rows of r's group.
Siblings(r) == {q \in transactions : q.origin_id = r.origin_id}

\* C30 amended, in every reachable state.  A row numbered (n/K) is a row
\* made by create_installment_transactions, and a row of a group that has no
\* number is one made by create_split_transactions.  A plan of two or more
\* installments of which two rows or more are left is inferred installment;
\* a plan of one installment, and a plan of which one row is left, is
\* inferred split; a split is inferred split; a row without origin_id is
\* simple and a row of a subscription is subscription.
C30_KindInferred ==
    \A r \in transactions :
        InferredKind(r) =
            IF r.origin_id = "None" THEN "simple"
            ELSE IF r.origin_id \in DOMAIN subscriptions THEN "subscription"
            ELSE IF r.description.k >= 2 /\ Cardinality(Siblings(r)) >= 2
            THEN "installment"
            ELSE "split"

\* A plan of two installments, a plan of one, a split of two rows and a
\* subscription's row in one ledger.
C30_Witness ==
    /\ \E r \in transactions :
          r.description.k = 2 /\ Cardinality(Siblings(r)) = 2
    /\ \E r \in transactions : r.description.k = 1
    /\ \E r \in transactions :
          /\ r.origin_id \notin DOMAIN subscriptions \cup {"None"}
          /\ r.description.k = 0
          /\ Cardinality(Siblings(r)) = 2
    /\ \E r \in transactions : r.origin_id \in DOMAIN subscriptions

(***************************************************************************)
(* C31: after process_transaction_update has changed the budget of an      *)
(* expense row from b1 to b2 (either may be none), b1's allocation of the  *)
(* row's month, if there is one, and an allocation of b2 for that month,   *)
(* which exists, both have the amount -A + min(S, A), S the spend linked   *)
(* to the budget in that month after the change.                           *)
(***************************************************************************)
\* The row the edit recorded in last was applied to, as it was before.
Edited == {t \in prev : t.id = last.id /\ t.origin_id \notin DOMAIN subscriptions}

BudgetChanged(t) ==
    /\ last.op = "edit" /\ ~last.raised
    /\ DOMAIN last.updates = {"budget"}
    /\ last.updates.budget # t.budget

C31_BudgetChange ==
    \A t \in Edited :
        BudgetChanged(t) =>
            LET mi == MonthOf(t.date_created)
                b1 == t.budget
                b2 == last.updates.budget
            IN  /\ b1 \in BudgetIds =>
                     \A a \in get_budget_allocation_for_month(transactions, b1, MkDate(mi, 1)) :
                         a.amount = Formula(transactions, subscriptions, b1, mi)
                /\ b2 \in BudgetIds =>
                     /\ get_budget_allocation_for_month(transactions, b2, MkDate(mi, 1)) # {}
                     /\ \A a \in get_budget_allocation_for_month(transactions, b2, MkDate(mi, 1)) :
                           a.amount = Formula(transactions, subscriptions, b2, mi)

(***************************************************************************)
(* C32: in the summary view, the rows of each credit-card account that     *)
(* share a date_payed are replaced by one "<account> Payment" row: its     *)
(* amount is the sum of their amounts, its status the strongest of theirs  *)
(* in the order committed > pending > planning > forecast, its running     *)
(* balance that of the last of them in the listing; the rows of cash       *)
(* accounts are listed as they are, and nothing else is.                   *)
(***************************************************************************)
\* The listing the view was made from.
Original == get_transactions_with_running_balance(transactions)

OnCard(t) == Accounts[t.account].account_type = "credit_card"

Rank(status) ==
    CASE status = "committed" -> 4
      [] status = "pending" -> 3
      [] status = "planning" -> 2
      [] status = "forecast" -> 1

\* The rows at the positions I of the original listing.
RowsAt(I) == {Original[i] : i \in I}

\* Row p is the payment that stands for the rows at the positions I.
IsPaymentOf(p, I) ==
    /\ p.description = Desc(Original[LastOf(I)].account \o " Payment")
    /\ p.amount = SumAmount(RowsAt(I))
    /\ p.status \in {t.status : t \in RowsAt(I)}
    /\ \A t \in RowsAt(I) : Rank(t.status) <= Rank(p.status)
    /\ p.running_balance = Original[LastOf(I)].running_balance

\* The view lists the rows at the positions Through as they are and one
\* payment for each (account, date_payed) of the rows at the positions Folded.
Summarizes(D, Folded, Through) ==
    LET Group(i) == {j \in Folded : /\ Original[j].account = Original[i].account
                                    /\ Original[j].date_payed = Original[i].date_payed}
        Payments == {k \in 1..Len(D) : D[k].id = SummaryId}
    IN  /\ \A i \in Folded :
              \E k \in Payments :
                  /\ D[k].account = Original[i].account
                  /\ D[k].date_payed = Original[i].date_payed
                  /\ IsPaymentOf(D[k], Group(i))
                  /\ \A m \in Payments :
                        (/\ D[m].account = D[k].account
                         /\ D[m].date_payed = D[k].date_payed) => m = k
        /\ \A k \in Payments :
              \E i \in Folded : /\ D[k].account = Original[i].account
                                /\ D[k].date_payed = Original[i].date_payed
        /\ {D[k] : k \in (1..Len(D)) \ Payments} = RowsAt(Through)
        /\ Len(D) = Cardinality(Payments) + Cardinality(Through)

CardPositions == {i \in 1..Len(Original) : OnCard(Original[i])}

C32_CardSummary ==
    listing.queried =>
        Summarizes(listing.rows, CardPositions, (1..Len(Original)) \ CardPositions)

\* C32 amended: with include_planning the view is as C32 has it; without,
\* the planning rows of credit cards are listed as they are too, and the
\* payments stand for the other rows of the cards.
PlanningPositions == {i \in CardPositions : Original[i].status = "planning"}

C32_CardSummaryByOption ==
    listing.queried =>
        IF listing.include_planning
        THEN Summarizes(listing.rows, CardPositions,
                        (1..Len(Original)) \ CardPositions)
        ELSE Summarizes(listing.rows, CardPositions \ PlanningPositions,
                        ((1..Len(Original)) \ CardPositions) \cup PlanningPositions)

\* A summary view without include_planning of a ledger with a cash row and
\* a planning row of a card that shares its date_payed with another row of the
\* card.
C32_Witness ==
    /\ listing.queried
    /\ ~listing.include_planning
    /\ \E i \in 1..Len(Original) : ~OnCard(Original[i])
    /\ \E i \in PlanningPositions : \E j \in CardPositions \ PlanningPositions :
          /\ Original[j].account = Original[i].account
          /\ Original[j].date_payed = Original[i].date_payed

(***************************************************************************)
(* C33: process_budget_update on budget b leaves the rows whose origin_id  *)
(* is not b, expense rows and rows of other subscriptions, the same set    *)
(* with the same values.                                                   *)
(***************************************************************************)
\* The rows of table T that budget b did not generate.
NotOf(T, b) == {r \in T : r.origin_id # b}

C34_PaidNotBeforeCreated ==
    calc.computed =>
        \A j \in 1..Len(calc.result) :
            calc.result[j].date_payed >= calc.result[j].date_created

\* An installment plan of three rows on a card with a grace period, and
\* its last row paid in a later month than the purchase.
C34_Witness ==
    /\ calc.computed
    /\ calc.factory = "installment"
    /\ calc.account_type = "credit_card"
    /\ calc.grace_period_months > 0
    /\ Len(calc.result) = 3
    /\ MonthOf(calc.result[3].date_payed) > MonthOf(calc.result[3].date_created)


\* C35: the rows of an installment plan of N installments have strictly
\* increasing date_payed values that fall in N consecutive calendar months,
\* one payment per month, for every purchase date and for the cash account
\* and every credit card.
C35_ConsecutiveMonths ==
    (calc.computed /\ calc.factory = "installment") =>
        \A j \in 1..(Len(calc.result) - 1) :
            /\ calc.result[j].date_payed < calc.result[j + 1].date_payed
            /\ MonthOf(calc.result[j + 1].date_payed)
                  = MonthOf(calc.result[j].date_payed) + 1


\* The fields of a row that a change of date is to leave alone.
Profile(r) ==
    [amount |-> r.amount, status |-> r.status, account |-> r.account,
     budget |-> r.budget, category |-> r.category]

\* The rows the last call, a process_transaction_date_update, re-created.
Recreated == {r \in Inserted : r.origin_id \notin DOMAIN subscriptions}

\* C36: process_transaction_date_update preserves the group: the rows it
\* re-creates are as many as the sibling rows it deleted, and each keeps the
\* signed amount, status, account, budget and category of the row it replaces.
C36_GroupPreserved ==
    (last.op = "date_change" /\ ~last.raised) =>
        /\ Cardinality(Recreated) = Cardinality(Removed)
        /\ \A p \in {Profile(r) : r \in Removed \cup Recreated} :
              Cardinality({r \in Removed : Profile(r) = p})
                  = Cardinality({r \in Recreated : Profile(r) = p})


\* C37: run_monthly_budget_reconciliation is idempotent per month: a second
\* call for the same month, made right after the first, adds no row (no
\* second Budget Release) and changes no amount.
C37_ReconcileTwice ==
    [][(/\ last.op = "reconcile"
        /\ last'.op = "reconcile"
        /\ SameMonth(last.date, last'.date))
       => transactions' = transactions]_vars

\* A reconciliation that found the month's underspend already released: the
\* release row was there before the call, made by the call before it.
C37_Witness ==
    /\ steps = 3
    /\ last.op = "reconcile"
    /\ ops = {"add", "reconcile"}
    /\ \E r \in prev : /\ r.category = "Budget Release"
                       /\ SameMonth(r.date_created, last.date)
    /\ Cardinality({r \in transactions : r.category = "Budget Release"}) = 1


\* The calls of process_transaction_request that handle_confirm made for the
\* request of parse k.
CallsFor(k) == {i \in 1..Len(bot.calls) : bot.calls[i].parse = k}

\* C38: in the confirm flow of the Telegram bot, for any sequence of Confirm
\* callbacks (repeated presses, or Confirm pressed again after an error
\* reply), each previewed transaction is saved at most once and
\* process_transaction_request is executed at most once per parsed message.
C38_AtMostOnce ==
    \A k \in 1..bot.parses : Cardinality(CallsFor(k)) <= 1

\* C38, the saving alone: no parsed message has two calls that went through.
C38_SavedAtMostOnce ==
    \A k \in 1..bot.parses :
        Cardinality({i \in CallsFor(k) : ~bot.calls[i].raised}) <= 1

\* C39: a press of Confirm on a preview message saves exactly the
\* transaction shown in that preview, whatever new expenses, Revise presses,
\* corrections and Confirm presses of the user came before.
C39_SavesShown ==
    \A i \in 1..Len(bot.calls) :
        ~bot.calls[i].raised => bot.calls[i].request = bot.calls[i].shown

====
